---- MODULE Spec2Model ----
(***************************************************************************)
(* Stitcher (app.go): the merge orchestration of App.MergeVideos, the     *)
(* concurrent normalization tasks it fans out, the cancellation entry     *)
(* point App.CancelMerge and the App fields they share.                   *)
(*                                                                         *)
(* MergeVideos, every normalization goroutine, the wg.Wait goroutine and  *)
(* CancelMerge run as separate goroutines (each bound method call is      *)
(* dispatched on its own goroutine), so each is a process with its own    *)
(* position.  a.cancelFunc is read and written without synchronisation;   *)
(* each read and each write of it is a separate step.                     *)
(***************************************************************************)
EXTENDS Integers, Sequences, FiniteSets, TLC

----------------------------------------------------------------------------
(* Bounds of the exploration *)

\* largest number of records handed to MergeVideos
MaxFiles == 2
\* number of MergeVideos invocations explored in one behaviour
MaxMerges == 1
\* number of CancelMerge invocations explored in one behaviour
MaxCancels == 2
\* number of lines the final concat prints on its progress stream
MaxLines == 2
\* number of characters of the paths that are escaped on their own
MaxPathLen == 3
\* number of streams ffprobe reports for one file
MaxStreams == 3
\* length of the record lists the classifiers are applied to on their own
MaxListLen == 3

----------------------------------------------------------------------------
(* VideoFile records.  FPS is kept in hundredths of a frame per second,   *)
(* Resolution as the pair the "%dx%d" string is printed from.             *)

VidA ==
    [Path |-> "a.mp4", Codec |-> "h264", Resolution |-> <<640, 360>>,
     HasAudio |-> TRUE, FPS |-> 3000, PixelFormat |-> "yuv420p",
     SampleRate |-> 48000, ChannelLayout |-> "stereo", Duration |-> 5]

VidB ==
    [Path |-> "b.mp4", Codec |-> "h264", Resolution |-> <<1280, 720>>,
     HasAudio |-> TRUE, FPS |-> 3000, PixelFormat |-> "yuv420p",
     SampleRate |-> 48000, ChannelLayout |-> "stereo", Duration |-> 5]

Videos == {VidA, VidB}

SeqsUpTo(S, n) == UNION {[1..k -> S] : k \in 0..n}

\* the record lists MergeVideos is called with: every length up to MaxFiles,
\* all records alike (compatible) or the second one of another resolution
InputLists ==
    {vs \in SeqsUpTo(Videos, MaxFiles) : \A k \in DOMAIN vs : k # 2 => vs[k] = VidA}

\* tolerance of the frame-rate comparison, 0.05 in hundredths
FPSTolerance == 5

Abs(x) == IF x < 0 THEN -x ELSE x

looksFastMergeable_PixelFormatInverted(vs) ==
    IF Len(vs) = 0 THEN FALSE
    ELSE LET base == vs[1] IN
         \A k \in 2..Len(vs) :
            LET v == vs[k] IN
            /\ v.Codec = base.Codec
            /\ v.Resolution = base.Resolution
            /\ v.HasAudio = base.HasAudio
            /\ ~(Abs(v.FPS - base.FPS) > FPSTolerance)
            /\ v.PixelFormat # base.PixelFormat
            /\ (v.HasAudio =>
                  ~(v.SampleRate # base.SampleRate
                      \/ v.ChannelLayout # base.ChannelLayout))

looksFastMergeable_BoundaryExcluded(vs) ==
    IF Len(vs) = 0 THEN FALSE
    ELSE LET base == vs[1] IN
         \A k \in 2..Len(vs) :
            LET v == vs[k] IN
            /\ v.Codec = base.Codec
            /\ v.Resolution = base.Resolution
            /\ v.HasAudio = base.HasAudio
            /\ ~(Abs(v.FPS - base.FPS) >= FPSTolerance)
            /\ v.PixelFormat = base.PixelFormat
            /\ (v.HasAudio =>
                  ~(v.SampleRate # base.SampleRate
                      \/ v.ChannelLayout # base.ChannelLayout))

looksFastMergeable_SecondRecordOnly(vs) ==
    IF Len(vs) = 0 THEN FALSE
    ELSE LET base == vs[1] IN
         \A k \in 2..Len(vs) : k > 2 \/
            LET v == vs[k] IN
            /\ v.Codec = base.Codec
            /\ v.Resolution = base.Resolution
            /\ v.HasAudio = base.HasAudio
            /\ ~(Abs(v.FPS - base.FPS) > FPSTolerance)
            /\ v.PixelFormat = base.PixelFormat
            /\ (v.HasAudio =>
                  ~(v.SampleRate # base.SampleRate
                      \/ v.ChannelLayout # base.ChannelLayout))

looksFastMergeable_AudioParamsAlways(vs) ==
    IF Len(vs) = 0 THEN FALSE
    ELSE LET base == vs[1] IN
         \A k \in 2..Len(vs) :
            LET v == vs[k] IN
            /\ v.Codec = base.Codec
            /\ v.Resolution = base.Resolution
            /\ v.HasAudio = base.HasAudio
            /\ ~(Abs(v.FPS - base.FPS) > FPSTolerance)
            /\ v.PixelFormat = base.PixelFormat
            /\ (TRUE =>
                  ~(v.SampleRate # base.SampleRate
                      \/ v.ChannelLayout # base.ChannelLayout))

looksFastMergeable(vs) ==
    IF Len(vs) = 0 THEN FALSE
    ELSE LET base == vs[1] IN
         \A k \in 2..Len(vs) :
            LET v == vs[k] IN
            /\ v.Codec = base.Codec
            /\ v.Resolution = base.Resolution
            /\ v.HasAudio = base.HasAudio
            /\ ~(Abs(v.FPS - base.FPS) > FPSTolerance)
            /\ v.PixelFormat = base.PixelFormat
            /\ (v.HasAudio =>
                  ~(v.SampleRate # base.SampleRate
                      \/ v.ChannelLayout # base.ChannelLayout))

\* tolerance of the frontend's approx(), 0.05 in hundredths
approxTolerance == 5

approx(a, c) == Abs(a - c) <= approxTolerance

isFastMergeable_BoundaryExcluded(files) ==
    LET loaded == files IN
    IF Len(loaded) < 2 THEN FALSE
    ELSE LET b == loaded[1] IN
         \A k \in 1..Len(loaded) :
            LET v == loaded[k] IN
            /\ ~(v.Codec # b.Codec)
            /\ ~(v.Resolution # b.Resolution)
            /\ ~(v.HasAudio # b.HasAudio)
            /\ Abs(v.FPS - b.FPS) < approxTolerance
            /\ ~(v.PixelFormat # b.PixelFormat)
            /\ (v.HasAudio =>
                  /\ ~(v.SampleRate # b.SampleRate)
                  /\ ~(v.ChannelLayout # b.ChannelLayout))

\* the frontend's indicator function, applied to the records whose status
\* is 'loaded' (the list the merge handler passes to MergeVideos)
isFastMergeable(files) ==
    LET loaded == files IN
    IF Len(loaded) < 2 THEN FALSE
    ELSE LET b == loaded[1] IN
         \A k \in 1..Len(loaded) :
            LET v == loaded[k] IN
            /\ ~(v.Codec # b.Codec)
            /\ ~(v.Resolution # b.Resolution)
            /\ ~(v.HasAudio # b.HasAudio)
            /\ approx(v.FPS, b.FPS)
            /\ ~(v.PixelFormat # b.PixelFormat)
            /\ (v.HasAudio =>
                  /\ ~(v.SampleRate # b.SampleRate)
                  /\ ~(v.ChannelLayout # b.ChannelLayout))

\* MergeVideos rejects fewer than two records before the strategy decision
attemptsFastPath(vs) == ~(Len(vs) < 2) /\ looksFastMergeable(vs)

\* fmt.Sscanf(video.Resolution, "%dx%d", &w, &h) for a string printed as
\* "%dx%d" from the pair
scanWidth(resolution) == resolution[1]
scanHeight(resolution) == resolution[2]

RECURSIVE highest_LastWidest(_, _)
highest_LastWidest(vs, n) ==
    IF n = 0 THEN <<0, 0>>
    ELSE LET prev == highest_LastWidest(vs, n - 1)
             w == scanWidth(vs[n].Resolution)
             h == scanHeight(vs[n].Resolution)
         IN  IF w >= prev[1] THEN <<w, h>> ELSE prev

\* <<highestWidth, highestHeight>> after the loop went over vs[1..n]
RECURSIVE highest(_, _)
highest(vs, n) ==
    IF n = 0 THEN <<0, 0>>
    ELSE LET prev == highest(vs, n - 1)
             w == scanWidth(vs[n].Resolution)
             h == scanHeight(vs[n].Resolution)
         IN  IF w > prev[1] THEN <<w, h>> ELSE prev

\* the sizes in the -vf argument of a normalization task
videoFilter(target) ==
    [scale |-> <<target[1], target[2]>>, pad |-> <<target[1], target[2]>>]

\* resolutions of the records the target is computed for: two of the same
\* greatest width, and a narrower one that is the tallest
TargetResolutions == {<<640, 360>>, <<1280, 720>>, <<1280, 544>>, <<960, 1080>>}

\* the lists that reach the computation have at least two records
TargetInputs ==
    {vs \in SeqsUpTo({[VidA EXCEPT !.Resolution = x] : x \in TargetResolutions},
                     MaxListLen) : Len(vs) >= 2}

\* (has, no): some record has audio, some record has none
audioMismatch(vs) ==
    [has |-> \E k \in DOMAIN vs : vs[k].HasAudio,
     no |-> \E k \in DOMAIN vs : ~vs[k].HasAudio]

needAudioNormalize_Either(vs) ==
    LET m == audioMismatch(vs) IN m.has \/ m.no

needAudioNormalize(vs) ==
    LET m == audioMismatch(vs) IN m.has /\ m.no

\* the lists audio normalization is decided for: at least two records, with
\* and without audio, of several resolutions
AudioInputs ==
    {vs \in SeqsUpTo({[VidA EXCEPT !.HasAudio = x, !.Resolution = y] :
                         x \in BOOLEAN, y \in TargetResolutions}, MaxListLen) :
        Len(vs) >= 2}

synthSilence_WheneverSilent(need, video) == ~video.HasAudio

\* synthSilence := needAudioNormalize && !video.HasAudio
synthSilence(need, video) == need /\ ~video.HasAudio

\* the text of the -vf argument for the target resolution
vfText == "scale=W:H:force_original_aspect_ratio=decrease,setsar=1,format=yuv420p,pad=W:H:(ow-iw)/2:(oh-ih)/2,fps=30"

\* the arguments a normalization task gives ffmpeg: need is
\* needAudioNormalize, codec is enc.Codec
normalizeArgs(need, video, vf, codec, outputFile) ==
    <<"-y", "-hide_banner", "-loglevel", "error", "-i", video.Path>>
      \o (IF synthSilence(need, video)
            THEN <<"-f", "lavfi", "-t", "999999", "-i",
                   "anullsrc=channel_layout=stereo:sample_rate=48000">>
            ELSE <<>>)
      \o <<"-vf", vf>>
      \o codec
      \o <<"-map", "0:v:0", "-sn", "-dn", "-map_metadata", "-1", "-map_chapters", "-1">>
      \o (IF need
            THEN IF video.HasAudio
                   THEN <<"-map", "0:a:0", "-c:a", "aac", "-ar", "48000", "-ac", "2">>
                   ELSE <<"-map", "1:a:0", "-c:a", "aac", "-ar", "48000", "-ac", "2",
                          "-shortest">>
            ELSE IF video.HasAudio
                   THEN <<"-map", "0:a:0", "-c:a", "aac", "-ar", "48000", "-ac", "2">>
                   ELSE <<"-an">>)
      \o <<outputFile>>

tryFastMergeArgs_Filtered(listFile, output) ==
    <<"-y", "-hide_banner", "-loglevel", "error",
      "-f", "concat", "-safe", "0", "-i", listFile,
      "-vf", "fps=30", "-c", "copy", "-progress", "-",
      output>>

\* the arguments tryFastMerge gives ffmpeg
tryFastMergeArgs(listFile, output) ==
    <<"-y", "-hide_banner", "-loglevel", "error", "-xerror",
      "-f", "concat", "-safe", "0", "-i", listFile,
      "-c", "copy",
      output>>

\* the arguments MergeVideos gives ffmpeg for the final concat
finalConcatArgs(listFile, output) ==
    <<"-y", "-f", "concat", "-safe", "0", "-i", listFile, "-c", "copy",
      "-nostats", "-progress", "-", output>>

\* the nil error
Nil == <<>>

fastMergeError_Swallowed(err, out) == Nil

\* fmt.Errorf("fast merge failed: %v\nffmpeg: %s", err, string(out)), as
\* the pieces of its text
fastMergeError(err, out) == <<"fast merge failed: ", err, "\nffmpeg: ", out>>

\* what ffmpeg may print on stdout and stderr before it exits
Diagnostics == {"", "codec mismatch"}

\* how cmd.CombinedOutput may end: the error it returns and whether the
\* tool may have printed something; "" stands for the nil error
ToolOutcomes ==
    {[exit |-> "ok", err |-> ""],
     [exit |-> "failed", err |-> "exit status 1"],
     [exit |-> "killed", err |-> "signal: killed"],
     [exit |-> "notStarted", err |-> "executable file not found"]}

\* the path lists and output paths tryFastMerge is called with directly
ConcatPaths == {"a.mp4", "b.mp4"}
ConcatInputs == [inputPaths : SeqsUpTo(ConcatPaths, MaxListLen), output : {"out.mp4"}]

\* float64 values are kept as exact fractions n/d in lowest terms, d > 0
RECURSIVE Gcd(_, _)
Gcd(a, b) == IF b = 0 THEN a ELSE Gcd(b, a % b)

Reduce(n, d) ==
    LET g == Gcd(Abs(n), d) IN [n |-> n \div g, d |-> d \div g]

Frac(n) == [n |-> n, d |-> 1]

FracSum(x, y) == Reduce(x.n * y.d + y.n * x.d, x.d * y.d)

\* totalDuration after the loop over the first k records
RECURSIVE totalDurationOf(_, _)
totalDurationOf(vs, k) ==
    IF k = 0 THEN Frac(0)
    ELSE FracSum(totalDurationOf(vs, k - 1), Frac(vs[k].Duration))

\* strconv.ParseInt(value, 10, 64): <<n>>, or <<>> for an error
ParseInt(value) ==
    CASE value = "0" -> <<0>>
      [] value = "5000000" -> <<5000000>>
      [] value = "9000000" -> <<9000000>>
      [] value = "12000000" -> <<12000000>>
      [] value = "-2000000" -> <<-2000000>>
      [] OTHER -> <<>>

\* float64(outTimeUs) / 1_000_000
progressSeconds(outTimeUs) == Reduce(outTimeUs, 1000000)

percentageOf_Unclamped(seconds, total) ==
    Reduce(seconds.n * 100 * total.d, seconds.d * total.n)

\* (progressSeconds / totalDuration) * 100, set to 100 when above
percentageOf(seconds, total) ==
    LET percentage == Reduce(seconds.n * 100 * total.d, seconds.d * total.n)
    IN  IF percentage.n > 100 * percentage.d THEN Frac(100) ELSE percentage

mergeEvents_ParseErrorAsZero(line, k, total) ==
    IF ~line.eq THEN <<>>
    ELSE IF line.key = "out_time_ms"
      THEN LET outTimeUs == IF ParseInt(line.value) = <<>> THEN 0
                            ELSE ParseInt(line.value)[1]
           IN  IF total.n > 0
                 THEN <<[line |-> k,
                         percentage |-> percentageOf(progressSeconds(outTimeUs), total),
                         current |-> progressSeconds(outTimeUs),
                         total |-> total,
                         message |-> "Merging..."]>>
                 ELSE <<>>
    ELSE IF line.key = "progress" /\ line.value = "end"
      THEN <<[line |-> k, percentage |-> Frac(100), current |-> total,
              total |-> total, message |-> "Merge complete"]>>
    ELSE <<>>

\* the mergeProgress events the reader emits for line number k of the
\* stream; a line is what strings.SplitN(line, "=", 2) and TrimSpace make
\* of it: whether there were two parts, the key and the value
mergeEvents(line, k, total) ==
    IF ~line.eq THEN <<>>
    ELSE IF line.key = "out_time_ms"
      THEN IF ParseInt(line.value) = <<>> THEN <<>>
           ELSE IF total.n > 0
             THEN <<[line |-> k,
                     percentage |-> percentageOf(progressSeconds(ParseInt(line.value)[1]), total),
                     current |-> progressSeconds(ParseInt(line.value)[1]),
                     total |-> total,
                     message |-> "Merging..."]>>
             ELSE <<>>
    ELSE IF line.key = "progress" /\ line.value = "end"
      THEN <<[line |-> k, percentage |-> Frac(100), current |-> total,
              total |-> total, message |-> "Merge complete"]>>
    ELSE <<>>

\* lines ffmpeg -progress may print, and some it should not
ProgressLines ==
    {[eq |-> TRUE, key |-> "out_time_ms", value |-> v] :
        v \in {"0", "5000000", "9000000", "12000000", "-2000000", "N/A"}}
      \cup {[eq |-> TRUE, key |-> "progress", value |-> v] : v \in {"continue", "end"}}
      \cup {[eq |-> TRUE, key |-> "frame", value |-> "10"],
            [eq |-> FALSE, key |-> "", value |-> ""]}

\* the durations (seconds) of the records of a merge whose progress is read
ProgressDurations == {0, 5}

ProgressInputs ==
    [videoFiles : {vs \in SeqsUpTo({[VidA EXCEPT !.Duration = x] : x \in ProgressDurations},
                                   MaxFiles) : Len(vs) >= 2},
     lines : SeqsUpTo(ProgressLines, MaxLines)]

\* strings.ReplaceAll(s, old, new) for a one-character old; strings are
\* sequences of one-character strings
RECURSIVE ReplaceAll(_, _, _)
ReplaceAll(str, old, new) ==
    IF str = <<>> THEN <<>>
    ELSE (IF Head(str) = old THEN new ELSE <<Head(str)>>)
           \o ReplaceAll(Tail(str), old, new)

\* sep is os.PathSeparator
escapeFFConcatPath(p, sep) ==
    LET str == ReplaceAll(p, "'", <<"'", "\\", "'", "'">>)
    IN  IF sep = "\\" THEN ReplaceAll(str, "\\", <<"\\", "\\">>) ELSE str

\* what follows "file " on the manifest line Fprintf writes for path p
manifestToken(p, sep) == <<"'">> \o escapeFFConcatPath(p, sep) \o <<"'">>

\* the characters of the paths that are escaped on their own, and the two
\* kinds of platform
PathChars == {"a", "'", "\\"}
PathSeparators == {"/", "\\"}
EscapeInputs == [p : SeqsUpTo(PathChars, MaxPathLen), sep : PathSeparators]

\* the zero FFProbeStream
ZeroStream ==
    [CodecType |-> "", CodecName |-> "", Width |-> 0, Height |-> 0,
     AvgFrameRate |-> "", PixFmt |-> "", SampleRate |-> "", ChannelLayout |-> ""]

\* streams ffprobe may report: a main picture, a cover picture, a video
\* stream without dimensions, two audio tracks and a subtitle track
ProbeStreams ==
    {[ZeroStream EXCEPT !.CodecType = "video", !.CodecName = "h264", !.Width = 1280,
                        !.Height = 720, !.AvgFrameRate = "30/1", !.PixFmt = "yuv420p"],
     [ZeroStream EXCEPT !.CodecType = "video", !.CodecName = "mjpeg", !.Width = 640,
                        !.Height = 360, !.AvgFrameRate = "0/0", !.PixFmt = "yuvj420p"],
     [ZeroStream EXCEPT !.CodecType = "video", !.CodecName = "png",
                        !.AvgFrameRate = "25", !.PixFmt = "rgb24"],
     [ZeroStream EXCEPT !.CodecType = "audio", !.CodecName = "aac",
                        !.SampleRate = "48000", !.ChannelLayout = "stereo"],
     [ZeroStream EXCEPT !.CodecType = "audio", !.CodecName = "mp3",
                        !.SampleRate = "44100", !.ChannelLayout = "mono"],
     [ZeroStream EXCEPT !.CodecType = "subtitle", !.CodecName = "mov_text"]}

ProbeInputs == SeqsUpTo(ProbeStreams, MaxStreams)

\* parseFrameRate, in hundredths: num/den when both parse and den is not
\* 0, else what ParseFloat makes of the whole string (0 on an error)
parseFrameRate(rate) ==
    CASE rate = "30/1" -> 3000
      [] rate = "25" -> 2500
      [] OTHER -> 0

\* strconv.Atoi with its error dropped
Atoi(str) ==
    CASE str = "48000" -> 48000
      [] str = "44100" -> 44100
      [] OTHER -> 0

\* videoStream, audioStream and hasAudio after the loop went over
\* streams[1..k]
RECURSIVE selectStreams(_, _)
selectStreams(streams, k) ==
    IF k = 0 THEN [videoStream |-> ZeroStream, audioStream |-> ZeroStream,
                   hasAudio |-> FALSE]
    ELSE LET sel == selectStreams(streams, k - 1)
             stream == streams[k]
         IN  IF stream.CodecType = "video"
               THEN [sel EXCEPT !.videoStream = stream]
             ELSE IF stream.CodecType = "audio" /\ ~sel.hasAudio
               THEN [sel EXCEPT !.audioStream = stream, !.hasAudio = TRUE]
             ELSE sel

\* what GetVideoMetadata returns once ffprobe's output is parsed
GetVideoMetadata(path, streams) ==
    LET sel == selectStreams(streams, Len(streams)) IN
    IF sel.videoStream.Width = 0 \/ sel.videoStream.Height = 0
      THEN [err |-> "no valid video stream found"]
      ELSE [err |-> "",
            file |-> [Path |-> path,
                      Codec |-> sel.videoStream.CodecName,
                      Resolution |-> <<sel.videoStream.Width, sel.videoStream.Height>>,
                      HasAudio |-> sel.hasAudio,
                      FPS |-> parseFrameRate(sel.videoStream.AvgFrameRate),
                      PixelFormat |-> sel.videoStream.PixFmt,
                      SampleRate |-> Atoi(sel.audioStream.SampleRate),
                      ChannelLayout |-> sel.audioStream.ChannelLayout]]

\* field values of the records the classifiers are applied to on their own
ClsCodecs == {"h264", "hevc"}
ClsResolutions == {<<640, 360>>, <<1280, 720>>}
ClsFPS == {3000, 3005, 3006}
ClsPixelFormats == {"yuv420p", "yuv422p"}
ClsSampleRates == {44100, 48000}
ClsChannelLayouts == {"mono", "stereo"}

ClsRecords ==
    [Path : {"a.mp4"}, Codec : ClsCodecs, Resolution : ClsResolutions,
     HasAudio : BOOLEAN, FPS : ClsFPS, PixelFormat : ClsPixelFormats,
     SampleRate : ClsSampleRates, ChannelLayout : ClsChannelLayouts,
     Duration : {5}]

\* the records that differ from b in at most one of the compared fields
Variants(b) ==
    {b} \cup {[b EXCEPT !.Codec = x] : x \in ClsCodecs}
        \cup {[b EXCEPT !.Resolution = x] : x \in ClsResolutions}
        \cup {[b EXCEPT !.HasAudio = x] : x \in BOOLEAN}
        \cup {[b EXCEPT !.FPS = x] : x \in ClsFPS}
        \cup {[b EXCEPT !.PixelFormat = x] : x \in ClsPixelFormats}
        \cup {[b EXCEPT !.SampleRate = x] : x \in ClsSampleRates}
        \cup {[b EXCEPT !.ChannelLayout = x] : x \in ClsChannelLayouts}

\* first records of the longer lists: one with audio, one without
ClsBases ==
    {[VidA EXCEPT !.HasAudio = x, !.FPS = y] : x \in BOOLEAN, y \in {3000, 3005}}

\* every list of up to two records, and the longer lists whose records
\* differ from the first in at most one field
ClassifierInputs ==
    SeqsUpTo(ClsRecords, 2) \cup
    UNION {{<<b>> \o t : t \in [1..(n - 1) -> Variants(b)]} :
             b \in ClsBases, n \in 3..MaxListLen}

HWEncoders == {"h264_nvenc", "h264_qsv", "h264_amf"}

buildVideoEncoderArgs_IgnorePreference(hw, have) ==
    IF "h264_nvenc" \in have THEN "h264_nvenc"
    ELSE IF "h264_qsv" \in have THEN "h264_qsv"
    ELSE IF "h264_amf" \in have THEN "h264_amf"
    ELSE "libx264"

buildVideoEncoderArgs_QsvFirst(hw, have) ==
    IF hw /\ "h264_qsv" \in have THEN "h264_qsv"
    ELSE IF hw /\ "h264_nvenc" \in have THEN "h264_nvenc"
    ELSE IF hw /\ "h264_amf" \in have THEN "h264_amf"
    ELSE "libx264"

\* the Name of the EncArgs buildVideoEncoderArgs returns
buildVideoEncoderArgs(hw, have) ==
    IF hw /\ "h264_nvenc" \in have THEN "h264_nvenc"
    ELSE IF hw /\ "h264_qsv" \in have THEN "h264_qsv"
    ELSE IF hw /\ "h264_amf" \in have THEN "h264_amf"
    ELSE "libx264"

\* the Codec of the EncArgs returned under the Name name
encoderCodec(name) ==
    CASE name = "h264_nvenc" ->
           <<"-c:v", "h264_nvenc", "-preset", "p4", "-rc", "vbr_hq", "-cq", "23",
             "-b:v", "0", "-pix_fmt", "yuv420p">>
      [] name = "h264_qsv" ->
           <<"-c:v", "h264_qsv", "-preset", "medium", "-rc", "icq",
             "-global_quality", "23", "-pix_fmt", "yuv420p">>
      [] name = "h264_amf" ->
           <<"-c:v", "h264_amf", "-quality", "quality", "-rc", "vbr",
             "-qvbr_quality_level", "23", "-pix_fmt", "yuv420p">>
      [] OTHER ->
           <<"-c:v", "libx264", "-preset", "veryfast", "-crf", "20",
             "-pix_fmt", "yuv420p">>

\* keys an availability map may hold: the three encoders asked for and one
\* of the hevc encoders detectEncoders also records
EncoderKeys == {"h264_nvenc", "h264_qsv", "h264_amf", "hevc_nvenc"}

\* a Go map[string]bool: nil, or a key-value table over some of the keys
NilMap == [nil |-> TRUE, kv |-> [k \in {} |-> FALSE]]
GoMaps ==
    {NilMap} \cup
    UNION {{[nil |-> FALSE, kv |-> f] : f \in [D -> BOOLEAN]} : D \in SUBSET EncoderKeys}

\* m[k]: the zero value for a nil map and for a missing key
lookup(m, k) == ~m.nil /\ k \in DOMAIN m.kv /\ m.kv[k]

\* the keys for which have[k] is true
trueKeys(m) == {k \in EncoderKeys : lookup(m, k)}

\* a.encAvail after startup: what detectEncoders found, or the empty map
\* when detection failed
EncAvailAtStartup == {{}, {"h264_qsv"}}

----------------------------------------------------------------------------
VARIABLES
    cancelFunc,         \* a.cancelFunc: 0 is nil, else the context it cancels
    useHW,              \* a.useHW
    encAvail,           \* a.encAvail, the set of keys mapped to true
    mvPc,               \* position of MergeVideos
    videoFiles,         \* its argument
    result,             \* the value MergeVideos returns (held in err from the select on)
    defers,             \* its stack of deferred calls
    mergeNo,            \* number of MergeVideos invocations so far
    enc,                \* enc.Name chosen for the normalization
    ctxState,           \* per context: "live" or who cancelled it first
    fastList,           \* the manifest file tryFastMerge writes
    tempDir,            \* the stitcher-normalized-* directory
    finalList,          \* the manifest file of the final concat
    finalManifest,      \* the lines written to it
    fastProc,           \* the fast-path ffmpeg subprocess
    finalProc,          \* the final concat ffmpeg subprocess
    task,               \* per input index: the normalization goroutine
    processedFilePaths, \* per input index: the normalized file name
    errCh,              \* the buffered error channel (capacity 1)
    doneCh,             \* TRUE once the wg.Wait goroutine closed doneCh
    completed,          \* the atomic completion counter
    taskEvents,         \* per input index: the mergeProgress events its goroutine emitted
    offers,             \* the input indices whose goroutine offered an error to errCh, in order
    cmPc,               \* position of CancelMerge
    cmTested,           \* the value of a.cancelFunc its nil test read
    cmCalls,            \* number of CancelMerge invocations so far
    cmFound,            \* ... of which found a.cancelFunc non-nil
    cancelledEvents,    \* number of "mergeCancelled" events emitted
    cmAtIdle,           \* the last CancelMerge was invoked with no merge in flight
    cancelPhase,        \* phase of the merge when the user's cancel took effect
    fnArgs,             \* the argument of a function applied on its own
    fnResult            \* what the function returned for it

appVars == <<cancelFunc, useHW, encAvail>>
mvVars == <<mvPc, videoFiles, result, defers, mergeNo, enc>>
fileVars == <<fastList, tempDir, finalList, finalManifest>>
procVars == <<fastProc, finalProc>>
taskVars == <<task, processedFilePaths, errCh, doneCh, completed, taskEvents, offers>>
cmVars == <<cmPc, cmTested, cmCalls, cmFound, cancelledEvents, cmAtIdle>>

\* the state of the running application
mainVars == <<appVars, mvVars, fileVars, procVars, taskVars, cmVars, ctxState, cancelPhase>>
\* the argument and result of a function applied on its own
fnVars == <<fnArgs, fnResult>>

vars == <<mainVars, fnVars>>

Ctxs == 1..(2 * MaxMerges)
\* the context of the fast-path attempt and of normalization + final concat
FastCtx == 2 * mergeNo - 1
NormCtx == 2 * mergeNo

Indices == 1..MaxFiles
N == Len(videoFiles)

NoResult == [kind |-> "none", task |-> 0, cause |-> "none"]
Res(k) == [kind |-> k, task |-> 0, cause |-> "none"]

\* filepath.Join(tempDir, "normalized-<i>-<base>"); <<>> is the empty string
outputFileName(i, video) == <<i, video.Path>>

\* context.CancelFunc: the first call cancels, later calls do nothing
Cancel(cs, c, who) ==
    IF c \in DOMAIN cs /\ cs[c] = "live" THEN [cs EXCEPT ![c] = who] ELSE cs

Cancelled(c) == ctxState[c] # "live"

TaskLive(i) == task[i] \in {"launched", "running"}

\* the App after NewApp and startup
AppInit ==
    /\ cancelFunc = 0
    /\ useHW = FALSE
    /\ encAvail \in EncAvailAtStartup
    /\ mvPc = "idle"
    /\ videoFiles = <<>>
    /\ result = NoResult
    /\ defers = <<>>
    /\ mergeNo = 0
    /\ enc = "none"
    /\ ctxState = [c \in Ctxs |-> "live"]
    /\ fastList = "none"
    /\ tempDir = "none"
    /\ finalList = "none"
    /\ finalManifest = <<>>
    /\ fastProc = "none"
    /\ finalProc = "none"
    /\ task = [i \in Indices |-> "idle"]
    /\ processedFilePaths = [i \in Indices |-> <<>>]
    /\ errCh = <<>>
    /\ doneCh = FALSE
    /\ completed = 0
    /\ taskEvents = [i \in Indices |-> <<>>]
    /\ offers = <<>>
    /\ cmPc = "idle"
    /\ cmTested = 0
    /\ cmCalls = 0
    /\ cmFound = 0
    /\ cancelledEvents = 0
    /\ cmAtIdle = FALSE
    /\ cancelPhase = "none"

NoArgs == <<>>
NoValue == [fn |-> "none"]

Init ==
    /\ AppInit
    /\ fnArgs = NoArgs
    /\ fnResult = NoValue

----------------------------------------------------------------------------
(* App.SetUseHardwareEncoder *)

SetUseHardwareEncoder(use) ==
    /\ useHW' = use
    /\ UNCHANGED <<cancelFunc, encAvail, mvVars, fileVars, procVars, taskVars,
                   cmVars, ctxState, cancelPhase>>
    /\ UNCHANGED fnVars

----------------------------------------------------------------------------
(* App.MergeVideos *)

\* a return statement: the result is fixed, then the deferred calls run
Return(r) ==
    /\ result' = r
    /\ mvPc' = "ret"

MV_Call_NoLengthCheck(vs) ==
    /\ mvPc = "idle"
    /\ mergeNo < MaxMerges
    /\ mergeNo' = mergeNo + 1
    /\ videoFiles' = vs
    /\ defers' = <<>>
    /\ enc' = "none"
    /\ fastList' = "none"
    /\ tempDir' = "none"
    /\ finalList' = "none"
    /\ finalManifest' = <<>>
    /\ fastProc' = "none"
    /\ finalProc' = "none"
    /\ task' = [i \in Indices |-> "idle"]
    /\ processedFilePaths' = [i \in Indices |-> <<>>]
    /\ errCh' = <<>>
    /\ doneCh' = FALSE
    /\ completed' = 0
    /\ taskEvents' = [i \in Indices |-> <<>>]
    /\ offers' = <<>>
    /\ cancelPhase' = "none"
    /\ result' = NoResult
    /\ mvPc' = "dialog"
    /\ UNCHANGED <<appVars, cmVars, ctxState>>
    /\ UNCHANGED fnVars

\* entry: fresh locals, then the length check
MV_Call(vs) ==
    /\ mvPc = "idle"
    /\ mergeNo < MaxMerges
    /\ mergeNo' = mergeNo + 1
    /\ videoFiles' = vs
    /\ defers' = <<>>
    /\ enc' = "none"
    /\ fastList' = "none"
    /\ tempDir' = "none"
    /\ finalList' = "none"
    /\ finalManifest' = <<>>
    /\ fastProc' = "none"
    /\ finalProc' = "none"
    /\ task' = [i \in Indices |-> "idle"]
    /\ processedFilePaths' = [i \in Indices |-> <<>>]
    /\ errCh' = <<>>
    /\ doneCh' = FALSE
    /\ completed' = 0
    /\ taskEvents' = [i \in Indices |-> <<>>]
    /\ offers' = <<>>
    /\ cancelPhase' = "none"
    /\ IF Len(vs) < 2
         THEN /\ result' = Res("err_too_few")
              /\ mvPc' = "idle"
         ELSE /\ result' = NoResult
              /\ mvPc' = "dialog"
    /\ UNCHANGED <<appVars, cmVars, ctxState>>
    /\ UNCHANGED fnVars

\* runtime.SaveFileDialog and the checks of what it returned
MV_Dialog(outcome) ==
    /\ mvPc = "dialog"
    /\ CASE outcome = "err" -> Return(Res("err_dialog"))
         [] outcome = "empty" -> Return(Res("err_save_cancelled"))
         [] OTHER -> /\ mvPc' = "decide"
                     /\ UNCHANGED result
    /\ UNCHANGED <<appVars, videoFiles, defers, mergeNo, enc, fileVars, procVars,
                   taskVars, cmVars, ctxState, cancelPhase>>
    /\ UNCHANGED fnVars

MV_Decide_AlwaysFast ==
    /\ mvPc = "decide"
    /\ cancelFunc' = FastCtx
    /\ defers' = Append(defers, "fast")
    /\ mvPc' = "fastWrite"
    /\ UNCHANGED <<useHW, encAvail, videoFiles, result, mergeNo, enc, fileVars,
                   procVars, taskVars, cmVars, ctxState, cancelPhase>>
    /\ UNCHANGED fnVars

\* the strategy decision; on the fast path the first context is created,
\* stored in a.cancelFunc and its cancel-and-clear is deferred
MV_Decide ==
    /\ mvPc = "decide"
    /\ IF looksFastMergeable(videoFiles)
         THEN /\ cancelFunc' = FastCtx
              /\ defers' = Append(defers, "fast")
              /\ mvPc' = "fastWrite"
         ELSE /\ mvPc' = "normStart"
              /\ UNCHANGED <<cancelFunc, defers>>
    /\ UNCHANGED <<useHW, encAvail, videoFiles, result, mergeNo, enc, fileVars,
                   procVars, taskVars, cmVars, ctxState, cancelPhase>>
    /\ UNCHANGED fnVars

\* tryFastMerge: writeConcatList.  A failed CreateTemp leaves no file, a
\* failed write closes and removes the file; either way tryFastMerge
\* returns the error and MergeVideos falls back
MV_FastWriteList(outcome) ==
    /\ mvPc = "fastWrite"
    /\ CASE outcome = "ok" -> /\ fastList' = "exists"
                              /\ mvPc' = "fastRun"
         [] outcome = "createFail" -> /\ fastList' = "none"
                                      /\ mvPc' = "normStart"
         [] OTHER -> /\ fastList' = "removed"
                     /\ mvPc' = "normStart"
    /\ UNCHANGED <<appVars, videoFiles, result, defers, mergeNo, enc, tempDir,
                   finalList, finalManifest, procVars, taskVars, cmVars,
                   ctxState, cancelPhase>>
    /\ UNCHANGED fnVars

\* tryFastMerge: cmd.CombinedOutput starts the subprocess, unless its
\* context is already done; then the deferred os.Remove(listFile) runs
MV_FastStart ==
    /\ mvPc = "fastRun"
    /\ IF Cancelled(FastCtx)
         THEN /\ fastList' = "removed"
              /\ mvPc' = "normStart"
              /\ UNCHANGED fastProc
         ELSE /\ fastProc' = "running"
              /\ mvPc' = "fastWait"
              /\ UNCHANGED fastList
    /\ UNCHANGED <<appVars, videoFiles, result, defers, mergeNo, enc, tempDir,
                   finalList, finalManifest, finalProc, taskVars, cmVars,
                   ctxState, cancelPhase>>
    /\ UNCHANGED fnVars

MV_FastWait_Propagate(outcome) ==
    /\ mvPc = "fastWait"
    /\ fastProc = "running"
    /\ outcome = "killed" => Cancelled(FastCtx)
    /\ fastProc' = outcome
    /\ fastList' = "removed"
    /\ IF outcome = "ok"
         THEN Return(Res("ok_fast"))
         ELSE Return(Res("err_fast"))
    /\ UNCHANGED <<appVars, videoFiles, defers, mergeNo, enc, tempDir, finalList,
                   finalManifest, finalProc, taskVars, cmVars, ctxState,
                   cancelPhase>>
    /\ UNCHANGED fnVars

\* tryFastMerge: the subprocess exits (killed only when its context is
\* cancelled), the manifest is removed, and MergeVideos returns success or
\* falls back to normalization
MV_FastWait(outcome) ==
    /\ mvPc = "fastWait"
    /\ fastProc = "running"
    /\ outcome = "killed" => Cancelled(FastCtx)
    /\ fastProc' = outcome
    /\ fastList' = "removed"
    /\ IF outcome = "ok"
         THEN Return(Res("ok_fast"))
         ELSE /\ mvPc' = "normStart"
              /\ UNCHANGED result
    /\ UNCHANGED <<appVars, videoFiles, defers, mergeNo, enc, tempDir, finalList,
                   finalManifest, finalProc, taskVars, cmVars, ctxState,
                   cancelPhase>>
    /\ UNCHANGED fnVars

\* start of the normalization workflow: os.MkdirTemp and its deferred
\* os.RemoveAll
MV_NormStart(ok) ==
    /\ mvPc = "normStart"
    /\ IF ok
         THEN /\ tempDir' = "exists"
              /\ defers' = Append(defers, "tempDir")
              /\ mvPc' = "normReg"
              /\ UNCHANGED result
         ELSE /\ Return(Res("err_mkdirtemp"))
              /\ UNCHANGED <<tempDir, defers>>
    /\ UNCHANGED <<appVars, videoFiles, mergeNo, enc, fastList, finalList,
                   finalManifest, procVars, taskVars, cmVars, ctxState,
                   cancelPhase>>
    /\ UNCHANGED fnVars

\* the fresh context of normalization and final concat, stored in
\* a.cancelFunc, with its deferred cancel-and-clear
MV_NormRegister ==
    /\ mvPc = "normReg"
    /\ cancelFunc' = NormCtx
    /\ defers' = Append(defers, "norm")
    /\ mvPc' = "launch"
    /\ UNCHANGED <<useHW, encAvail, videoFiles, result, mergeNo, enc, fileVars,
                   procVars, taskVars, cmVars, ctxState, cancelPhase>>
    /\ UNCHANGED fnVars

\* the encoder choice, the launch of one goroutine per record and of the
\* wg.Wait goroutine
MV_Launch ==
    /\ mvPc = "launch"
    /\ enc' = buildVideoEncoderArgs(useHW, encAvail)
    /\ task' = [i \in Indices |-> IF i <= N THEN "launched" ELSE "idle"]
    /\ mvPc' = "select"
    /\ UNCHANGED <<appVars, videoFiles, result, defers, mergeNo, fileVars,
                   procVars, processedFilePaths, errCh, doneCh, completed,
                   taskEvents, offers, cmVars, ctxState, cancelPhase>>
    /\ UNCHANGED fnVars

\* the non-blocking send on errCh
TrySend(ch, e) == IF Len(ch) = 0 THEN <<e>> ELSE ch

NormError(i, how) == [task |-> i, cause |-> how]

\* the mergeProgress event a goroutine emits when it starts
StartEvent == [message |-> "Normalizing", done |-> 0, total |-> 0]

\* the one it emits after counting itself
DoneEvent(done, total) == [message |-> "Normalized", done |-> done, total |-> total]

\* a normalization goroutine emits its start event and reaches cmd.Run: the
\* subprocess starts, unless the context is already done; then the error is
\* offered to errCh and the goroutine ends
T_Run(i) ==
    /\ i <= N
    /\ task[i] = "launched"
    /\ taskEvents' = [taskEvents EXCEPT ![i] = Append(@, StartEvent)]
    /\ IF Cancelled(NormCtx)
         THEN /\ task' = [task EXCEPT ![i] = "notstarted"]
              /\ errCh' = TrySend(errCh, NormError(i, "notstarted"))
              /\ offers' = Append(offers, i)
         ELSE /\ task' = [task EXCEPT ![i] = "running"]
              /\ UNCHANGED <<errCh, offers>>
    /\ UNCHANGED <<appVars, mvVars, fileVars, procVars, processedFilePaths,
                   doneCh, completed, cmVars, ctxState, cancelPhase>>
    /\ UNCHANGED fnVars

T_Finish_StaleCounter(i, outcome) ==
    /\ i <= N
    /\ task[i] = "running"
    /\ outcome = "killed" => Cancelled(NormCtx)
    /\ task' = [task EXCEPT ![i] = outcome]
    /\ IF outcome = "ok"
         THEN /\ processedFilePaths' =
                    [processedFilePaths EXCEPT ![i] = outputFileName(i, videoFiles[i])]
              /\ completed' = completed + 1
              /\ taskEvents' =
                    [taskEvents EXCEPT ![i] = Append(@, DoneEvent(completed, N))]
              /\ UNCHANGED <<errCh, offers>>
         ELSE /\ errCh' = TrySend(errCh, NormError(i, outcome))
              /\ offers' = Append(offers, i)
              /\ UNCHANGED <<processedFilePaths, completed, taskEvents>>
    /\ UNCHANGED <<appVars, mvVars, fileVars, procVars, doneCh, cmVars, ctxState,
                   cancelPhase>>
    /\ UNCHANGED fnVars

\* its subprocess exits and cmd.Run returns: on success the goroutine fills
\* its slot, counts itself with atomic.AddInt32 and emits the event carrying
\* the value the addition returned; on failure it offers the error to
\* errCh; then wg.Done
T_Finish(i, outcome) ==
    /\ i <= N
    /\ task[i] = "running"
    /\ outcome = "killed" => Cancelled(NormCtx)
    /\ task' = [task EXCEPT ![i] = outcome]
    /\ IF outcome = "ok"
         THEN /\ processedFilePaths' =
                    [processedFilePaths EXCEPT ![i] = outputFileName(i, videoFiles[i])]
              /\ completed' = completed + 1
              /\ taskEvents' =
                    [taskEvents EXCEPT ![i] = Append(@, DoneEvent(completed + 1, N))]
              /\ UNCHANGED <<errCh, offers>>
         ELSE /\ errCh' = TrySend(errCh, NormError(i, outcome))
              /\ offers' = Append(offers, i)
              /\ UNCHANGED <<processedFilePaths, completed, taskEvents>>
    /\ UNCHANGED <<appVars, mvVars, fileVars, procVars, doneCh, cmVars, ctxState,
                   cancelPhase>>
    /\ UNCHANGED fnVars

TaskEnded(i) == task[i] \in {"ok", "failed", "killed", "notstarted"}

W_Close_OnlyOnSuccess ==
    /\ ~doneCh
    /\ N >= 2
    /\ \A i \in 1..N : task[i] = "ok"
    /\ doneCh' = TRUE
    /\ UNCHANGED <<appVars, mvVars, fileVars, procVars, task, processedFilePaths,
                   errCh, completed, taskEvents, offers, cmVars, ctxState,
                   cancelPhase>>
    /\ UNCHANGED fnVars

\* the wg.Wait goroutine: all goroutines called wg.Done, doneCh is closed
W_Close ==
    /\ ~doneCh
    /\ N >= 2
    /\ \A i \in 1..N : TaskEnded(i)
    /\ doneCh' = TRUE
    /\ UNCHANGED <<appVars, mvVars, fileVars, procVars, task, processedFilePaths,
                   errCh, completed, taskEvents, offers, cmVars, ctxState,
                   cancelPhase>>
    /\ UNCHANGED fnVars

\* select, case err := <-errCh: cancel the siblings
MV_SelectErr ==
    /\ mvPc = "select"
    /\ Len(errCh) > 0
    /\ result' = [kind |-> "err_normalize", task |-> Head(errCh).task,
                  cause |-> Head(errCh).cause]
    /\ errCh' = Tail(errCh)
    /\ ctxState' = Cancel(ctxState, NormCtx, "orch")
    /\ mvPc' = "drain"
    /\ UNCHANGED <<appVars, videoFiles, defers, mergeNo, enc, fileVars, procVars,
                   task, processedFilePaths, doneCh, completed, taskEvents,
                   offers, cmVars, cancelPhase>>
    /\ UNCHANGED fnVars

\* the failure path returning right after cancel(), without <-doneCh
MV_Drain_NoWait ==
    /\ mvPc = "drain"
    /\ mvPc' = "ret"
    /\ UNCHANGED <<appVars, videoFiles, result, defers, mergeNo, enc, fileVars,
                   procVars, taskVars, cmVars, ctxState, cancelPhase>>
    /\ UNCHANGED fnVars

\* ... then <-doneCh and return the error
MV_Drain ==
    /\ mvPc = "drain"
    /\ doneCh
    /\ mvPc' = "ret"
    /\ UNCHANGED <<appVars, videoFiles, result, defers, mergeNo, enc, fileVars,
                   procVars, taskVars, cmVars, ctxState, cancelPhase>>
    /\ UNCHANGED fnVars

\* select, case <-doneCh
MV_SelectDone ==
    /\ mvPc = "select"
    /\ doneCh
    /\ mvPc' = "finalCreate"
    /\ UNCHANGED <<appVars, videoFiles, result, defers, mergeNo, enc, fileVars,
                   procVars, taskVars, cmVars, ctxState, cancelPhase>>
    /\ UNCHANGED fnVars

\* final concat: os.CreateTemp and its deferred os.Remove
MV_FinalCreate(ok) ==
    /\ mvPc = "finalCreate"
    /\ IF ok
         THEN /\ finalList' = "exists"
              /\ defers' = Append(defers, "finalList")
              /\ mvPc' = "finalWrite"
              /\ UNCHANGED result
         ELSE /\ Return(Res("err_createtemp"))
              /\ UNCHANGED <<finalList, defers>>
    /\ UNCHANGED <<appVars, videoFiles, mergeNo, enc, fastList, tempDir,
                   finalManifest, procVars, taskVars, cmVars, ctxState,
                   cancelPhase>>
    /\ UNCHANGED fnVars

\* one manifest line per slot of processedFilePaths, in slot order; a
\* failed write of line `bad` leaves the lines before it and returns
\* (bad = 0: every write succeeds)
MV_FinalWrite(bad) ==
    /\ mvPc = "finalWrite"
    /\ bad \in 0..N
    /\ IF bad = 0
         THEN /\ finalManifest' = [k \in 1..N |-> processedFilePaths[k]]
              /\ mvPc' = "finalStart"
              /\ UNCHANGED result
         ELSE /\ finalManifest' = [k \in 1..(bad - 1) |-> processedFilePaths[k]]
              /\ Return(Res("err_write"))
    /\ UNCHANGED <<appVars, videoFiles, defers, mergeNo, enc, fastList, tempDir,
                   finalList, procVars, taskVars, cmVars, ctxState, cancelPhase>>
    /\ UNCHANGED fnVars

\* cmd.StdoutPipe and cmd.Start; Start refuses when the context is done
MV_FinalStart(outcome) ==
    /\ mvPc = "finalStart"
    /\ CASE outcome = "pipeFail" ->
              /\ Return(Res("err_pipe"))
              /\ UNCHANGED finalProc
         [] outcome = "startFail" \/ Cancelled(NormCtx) ->
              /\ Return(Res("err_start"))
              /\ UNCHANGED finalProc
         [] OTHER ->
              /\ finalProc' = "running"
              /\ mvPc' = "finalWait"
              /\ UNCHANGED result
    /\ UNCHANGED <<appVars, videoFiles, defers, mergeNo, enc, fileVars, fastProc,
                   taskVars, cmVars, ctxState, cancelPhase>>
    /\ UNCHANGED fnVars

\* the subprocess exits (killed only when its context is cancelled) and
\* cmd.Wait returns; an error is reported as a cancellation when ctx.Err()
\* is Canceled at that moment
MV_FinalWait(outcome) ==
    /\ mvPc = "finalWait"
    /\ finalProc = "running"
    /\ outcome = "killed" => Cancelled(NormCtx)
    /\ finalProc' = outcome
    /\ IF outcome = "ok"
         THEN Return(Res("ok_final"))
         ELSE IF Cancelled(NormCtx)
                THEN Return(Res("cancelled"))
                ELSE Return(Res("err_exec"))
    /\ UNCHANGED <<appVars, videoFiles, defers, mergeNo, enc, fileVars, fastProc,
                   taskVars, cmVars, ctxState, cancelPhase>>
    /\ UNCHANGED fnVars
Last(s) == s[Len(s)]
Pop(s) == SubSeq(s, 1, Len(s) - 1)

\* defer os.Remove(tempFile.Name())
MV_DeferRemoveFinalList ==
    /\ mvPc = "ret"
    /\ defers # <<>>
    /\ Last(defers) = "finalList"
    /\ finalList' = "removed"
    /\ defers' = Pop(defers)
    /\ UNCHANGED <<appVars, mvPc, videoFiles, result, mergeNo, enc, fastList,
                   tempDir, finalManifest, procVars, taskVars, cmVars, ctxState,
                   cancelPhase>>
    /\ UNCHANGED fnVars

\* the deferred call cancelling the context but leaving a.cancelFunc set
MV_DeferCancelNorm_NoClear ==
    /\ mvPc = "ret"
    /\ defers # <<>>
    /\ Last(defers) = "norm"
    /\ ctxState' = Cancel(ctxState, NormCtx, "defer")
    /\ defers' = Pop(defers)
    /\ UNCHANGED <<appVars, mvPc, videoFiles, result, mergeNo, enc, fileVars,
                   procVars, taskVars, cmVars, cancelPhase>>
    /\ UNCHANGED fnVars

\* defer func() { cancel(); a.cancelFunc = nil }() of the second context
MV_DeferCancelNorm ==
    /\ mvPc = "ret"
    /\ defers # <<>>
    /\ Last(defers) = "norm"
    /\ ctxState' = Cancel(ctxState, NormCtx, "defer")
    /\ cancelFunc' = 0
    /\ defers' = Pop(defers)
    /\ UNCHANGED <<useHW, encAvail, mvPc, videoFiles, result, mergeNo, enc,
                   fileVars, procVars, taskVars, cmVars, cancelPhase>>
    /\ UNCHANGED fnVars

\* the deferred call removing nothing
MV_DeferRemoveTempDir_Leak ==
    /\ mvPc = "ret"
    /\ defers # <<>>
    /\ Last(defers) = "tempDir"
    /\ defers' = Pop(defers)
    /\ UNCHANGED <<appVars, mvPc, videoFiles, result, mergeNo, enc, fileVars,
                   procVars, taskVars, cmVars, ctxState, cancelPhase>>
    /\ UNCHANGED fnVars

\* defer os.RemoveAll(tempDir)
MV_DeferRemoveTempDir ==
    /\ mvPc = "ret"
    /\ defers # <<>>
    /\ Last(defers) = "tempDir"
    /\ tempDir' = "removed"
    /\ defers' = Pop(defers)
    /\ UNCHANGED <<appVars, mvPc, videoFiles, result, mergeNo, enc, fastList,
                   finalList, finalManifest, procVars, taskVars, cmVars,
                   ctxState, cancelPhase>>
    /\ UNCHANGED fnVars

\* defer func() { cancel(); a.cancelFunc = nil }() of the first context
MV_DeferCancelFast ==
    /\ mvPc = "ret"
    /\ defers # <<>>
    /\ Last(defers) = "fast"
    /\ ctxState' = Cancel(ctxState, FastCtx, "defer")
    /\ cancelFunc' = 0
    /\ defers' = Pop(defers)
    /\ UNCHANGED <<useHW, encAvail, mvPc, videoFiles, result, mergeNo, enc,
                   fileVars, procVars, taskVars, cmVars, cancelPhase>>
    /\ UNCHANGED fnVars

\* all deferred calls have run: the result reaches the caller
MV_Return ==
    /\ mvPc = "ret"
    /\ defers = <<>>
    /\ mvPc' = "idle"
    /\ UNCHANGED <<appVars, videoFiles, result, defers, mergeNo, enc, fileVars,
                   procVars, taskVars, cmVars, ctxState, cancelPhase>>
    /\ UNCHANGED fnVars

----------------------------------------------------------------------------
(* App.CancelMerge *)

\* the contexts under which a subprocess is running
LiveCtxs ==
    (IF fastProc = "running" THEN {FastCtx} ELSE {})
      \cup (IF finalProc = "running" \/ \E i \in 1..N : task[i] = "running"
              THEN {NormCtx} ELSE {})

\* where MergeVideos is when the cancel function of context c is called
PhaseOf(c) ==
    IF mergeNo = 0 \/ ctxState[c] # "live" THEN "other"
    ELSE IF c = FastCtx /\ fastProc = "running" THEN "fast"
    ELSE IF c = NormCtx /\ (\E i \in 1..N : task[i] = "running") THEN "norm"
    ELSE IF c = NormCtx /\ mvPc \in {"finalCreate", "finalWrite", "finalStart", "finalWait"}
      THEN "final"
    ELSE "other"

\* if a.cancelFunc != nil
CM_Test ==
    /\ cmPc = "idle"
    /\ cmCalls < MaxCancels
    /\ cmCalls' = cmCalls + 1
    /\ cmTested' = cancelFunc
    /\ cmAtIdle' = (mvPc = "idle")
    /\ IF cancelFunc # 0
         THEN /\ cmFound' = cmFound + 1
              /\ cmPc' = "call"
         ELSE /\ cmPc' = "idle"
              /\ UNCHANGED cmFound
    /\ UNCHANGED <<appVars, mvVars, fileVars, procVars, taskVars, cancelledEvents,
                   ctxState, cancelPhase>>
    /\ UNCHANGED fnVars

\* a.cancelFunc(): the field is read a second time, without
\* synchronisation; the call uses the value the test read (reload = FALSE)
\* or the value the field holds now (reload = TRUE), and a nil value panics
CM_Call(reload) ==
    /\ cmPc = "call"
    /\ LET f == IF reload THEN cancelFunc ELSE cmTested IN
       IF f = 0
         THEN /\ cmPc' = "panicked"
              /\ UNCHANGED <<ctxState, cancelPhase>>
         ELSE /\ cmPc' = "clear"
              /\ ctxState' = Cancel(ctxState, f, "user")
              /\ cancelPhase' =
                    IF cancelPhase = "none" /\ PhaseOf(f) # "other"
                      THEN PhaseOf(f) ELSE cancelPhase
    /\ UNCHANGED <<appVars, mvVars, fileVars, procVars, taskVars, cmTested,
                   cmCalls, cmFound, cancelledEvents, cmAtIdle>>
    /\ UNCHANGED fnVars

\* a.cancelFunc = nil
CM_Clear ==
    /\ cmPc = "clear"
    /\ cancelFunc' = 0
    /\ cmPc' = "emit"
    /\ UNCHANGED <<useHW, encAvail, mvVars, fileVars, procVars, taskVars,
                   cmTested, cmCalls, cmFound, cancelledEvents, cmAtIdle,
                   ctxState, cancelPhase>>
    /\ UNCHANGED fnVars

\* runtime.EventsEmit(a.ctx, "mergeCancelled")
CM_Emit ==
    /\ cmPc = "emit"
    /\ cancelledEvents' = cancelledEvents + 1
    /\ cmPc' = "idle"
    /\ UNCHANGED <<appVars, mvVars, fileVars, procVars, taskVars, cmTested,
                   cmCalls, cmFound, cmAtIdle, ctxState, cancelPhase>>
    /\ UNCHANGED fnVars

----------------------------------------------------------------------------

Next ==
    \/ \E use \in BOOLEAN : SetUseHardwareEncoder(use)
    \/ \E vs \in InputLists : MV_Call(vs)
    \/ \E outcome \in {"err", "empty", "ok"} : MV_Dialog(outcome)
    \/ MV_Decide
    \/ \E outcome \in {"ok", "createFail", "writeFail"} : MV_FastWriteList(outcome)
    \/ MV_FastStart
    \/ \E outcome \in {"ok", "failed", "killed"} : MV_FastWait(outcome)
    \/ \E ok \in BOOLEAN : MV_NormStart(ok)
    \/ MV_NormRegister
    \/ MV_Launch
    \/ \E i \in Indices : T_Run(i)
    \/ \E i \in Indices, outcome \in {"ok", "failed", "killed"} : T_Finish(i, outcome)
    \/ W_Close
    \/ MV_SelectErr
    \/ MV_Drain
    \/ MV_SelectDone
    \/ \E ok \in BOOLEAN : MV_FinalCreate(ok)
    \/ \E bad \in 0..MaxFiles : MV_FinalWrite(bad)
    \/ \E outcome \in {"pipeFail", "startFail", "ok"} : MV_FinalStart(outcome)
    \/ \E outcome \in {"ok", "failed", "killed"} : MV_FinalWait(outcome)
    \/ MV_DeferRemoveFinalList
    \/ MV_DeferCancelNorm
    \/ MV_DeferRemoveTempDir
    \/ MV_DeferCancelFast
    \/ MV_Return
    \/ CM_Test
    \/ CM_Call(TRUE)
    \/ CM_Call(FALSE)
    \/ CM_Clear
    \/ CM_Emit

Spec == Init /\ [][Next]_vars

\* the steps MergeVideos takes on its own once the save dialog has returned
MV_Step ==
    \/ MV_Decide
    \/ \E outcome \in {"ok", "createFail", "writeFail"} : MV_FastWriteList(outcome)
    \/ MV_FastStart
    \/ \E ok \in BOOLEAN : MV_NormStart(ok)
    \/ MV_NormRegister
    \/ MV_Launch
    \/ MV_SelectErr
    \/ MV_Drain
    \/ MV_SelectDone
    \/ \E ok \in BOOLEAN : MV_FinalCreate(ok)
    \/ \E bad \in 0..MaxFiles : MV_FinalWrite(bad)
    \/ \E outcome \in {"pipeFail", "startFail", "ok"} : MV_FinalStart(outcome)
    \/ MV_DeferRemoveFinalList
    \/ MV_DeferCancelNorm
    \/ MV_DeferRemoveTempDir
    \/ MV_DeferCancelFast
    \/ MV_Return

\* the exit of the fast-path or final concat subprocess
MV_ProcExit ==
    \/ \E outcome \in {"ok", "failed", "killed"} : MV_FastWait(outcome)
    \/ \E outcome \in {"ok", "failed", "killed"} : MV_FinalWait(outcome)

\* the steps of normalization goroutine i, the second being the exit of its
\* subprocess
T_Step(i) ==
    \/ T_Run(i)
    \/ \E outcome \in {"ok", "failed", "killed"} : T_Finish(i, outcome)

\* every goroutine that can run does run, and every started subprocess exits
Fairness ==
    /\ WF_vars(MV_Step)
    /\ WF_vars(MV_ProcExit)
    /\ \A i \in Indices : WF_vars(T_Step(i))
    /\ WF_vars(W_Close)

\* one merge and the CancelMerge calls racing it; the hardware preference
\* is left as it is
NextLive ==
    \/ \E vs \in InputLists : MV_Call(vs)
    \/ \E outcome \in {"err", "empty", "ok"} : MV_Dialog(outcome)
    \/ MV_Step
    \/ MV_ProcExit
    \/ \E i \in Indices : T_Step(i)
    \/ W_Close
    \/ CM_Test
    \/ CM_Call(TRUE)
    \/ CM_Call(FALSE)
    \/ CM_Clear
    \/ CM_Emit

SpecLive == Init /\ [][NextLive]_vars /\ Fairness

----------------------------------------------------------------------------
(* The two classifiers applied on their own to one record list *)

NotCalled == <<>>

InitClassifier ==
    /\ AppInit
    /\ encAvail = {}
    /\ fnArgs \in ClassifierInputs
    /\ fnResult = [fast |-> NotCalled, ready |-> NotCalled]

\* the backend classifies the list
Call_looksFastMergeable ==
    /\ fnResult.fast = NotCalled
    /\ fnResult' = [fnResult EXCEPT !.fast = <<looksFastMergeable(fnArgs)>>]
    /\ UNCHANGED <<mainVars, fnArgs>>

\* the frontend renders the indicator for the list
Call_isFastMergeable ==
    /\ fnResult.ready = NotCalled
    /\ fnResult' = [fnResult EXCEPT !.ready = <<isFastMergeable(fnArgs)>>]
    /\ UNCHANGED <<mainVars, fnArgs>>

NextClassifier ==
    \/ Call_looksFastMergeable
    \/ Call_isFastMergeable

SpecClassifier == InitClassifier /\ [][NextClassifier]_vars

----------------------------------------------------------------------------
(* The target resolution of normalization computed on its own *)

InitTarget ==
    /\ AppInit
    /\ encAvail = {}
    /\ fnArgs \in TargetInputs
    /\ fnResult = [target |-> NotCalled, vf |-> [i \in DOMAIN fnArgs |-> NotCalled]]

\* the loop over the records
MV_TargetResolution ==
    /\ fnResult.target = NotCalled
    /\ fnResult' = [fnResult EXCEPT !.target = <<highest(fnArgs, Len(fnArgs))>>]
    /\ UNCHANGED <<mainVars, fnArgs>>

\* task i builds its filter from highestWidth and highestHeight
T_VideoFilter(i) ==
    /\ i \in DOMAIN fnArgs
    /\ fnResult.target # NotCalled
    /\ fnResult.vf[i] = NotCalled
    /\ fnResult' = [fnResult EXCEPT !.vf[i] = <<videoFilter(fnResult.target[1])>>]
    /\ UNCHANGED <<mainVars, fnArgs>>

NextTarget ==
    \/ MV_TargetResolution
    \/ \E i \in 1..MaxListLen : T_VideoFilter(i)

SpecTarget == InitTarget /\ [][NextTarget]_vars

----------------------------------------------------------------------------
(* The audio normalization decision on its own *)

InitAudio ==
    /\ AppInit
    /\ encAvail = {}
    /\ fnArgs \in AudioInputs
    /\ fnResult = [mismatch |-> NotCalled, need |-> NotCalled,
                   args |-> [i \in DOMAIN fnArgs |-> NotCalled]]

\* hasAud, noAud := audioMismatch(videoFiles)
MV_AudioMismatch ==
    /\ fnResult.mismatch = NotCalled
    /\ fnResult' = [fnResult EXCEPT !.mismatch = <<audioMismatch(fnArgs)>>]
    /\ UNCHANGED <<mainVars, fnArgs>>

\* needAudioNormalize := hasAud && noAud
MV_NeedAudioNormalize ==
    /\ fnResult.mismatch # NotCalled
    /\ fnResult.need = NotCalled
    /\ fnResult' = [fnResult EXCEPT !.need = <<needAudioNormalize(fnArgs)>>]
    /\ UNCHANGED <<mainVars, fnArgs>>

\* task i builds its argument list
T_Args(i) ==
    /\ i \in DOMAIN fnArgs
    /\ fnResult.need # NotCalled
    /\ fnResult.args[i] = NotCalled
    /\ fnResult' =
         [fnResult EXCEPT
            !.args[i] = <<normalizeArgs(fnResult.need[1], fnArgs[i], vfText,
                                        encoderCodec("libx264"), "normalized.mp4")>>]
    /\ UNCHANGED <<mainVars, fnArgs>>

NextAudio ==
    \/ MV_AudioMismatch
    \/ MV_NeedAudioNormalize
    \/ \E i \in 1..MaxListLen : T_Args(i)

SpecAudio == InitAudio /\ [][NextAudio]_vars

----------------------------------------------------------------------------
(* buildVideoEncoderArgs on its own *)

InitEncoder ==
    /\ AppInit
    /\ encAvail = {}
    /\ fnArgs \in [useHW : BOOLEAN, have : GoMaps]
    /\ fnResult = NotCalled

Call_buildVideoEncoderArgs ==
    /\ fnResult = NotCalled
    /\ fnResult' =
         LET name == buildVideoEncoderArgs(fnArgs.useHW, trueKeys(fnArgs.have))
         IN  <<[Name |-> name, Codec |-> encoderCodec(name)]>>
    /\ UNCHANGED <<mainVars, fnArgs>>

NextEncoder == Call_buildVideoEncoderArgs

SpecEncoder == InitEncoder /\ [][NextEncoder]_vars

----------------------------------------------------------------------------
(* tryFastMerge called directly, and the command line of the final concat *)

InitConcat ==
    /\ AppInit
    /\ encAvail = {}
    /\ fnArgs \in ConcatInputs
    /\ fnResult = [pc |-> "writeList", listFile |-> "none", args |-> NotCalled,
                   exit |-> "none", out |-> "", err |-> Nil,
                   finalArgs |-> NotCalled]

\* writeConcatList: a failure is returned as it is
TFM_WriteConcatList(outcome) ==
    /\ fnResult.pc = "writeList"
    /\ fnResult' =
         IF outcome = "ok"
           THEN [fnResult EXCEPT !.pc = "run", !.listFile = "exists"]
           ELSE [fnResult EXCEPT !.pc = "returned",
                                 !.listFile = IF outcome = "createFail"
                                                THEN "none" ELSE "removed",
                                 !.err = <<outcome>>]
    /\ UNCHANGED <<mainVars, fnArgs>>

\* cmd.CombinedOutput, the deferred os.Remove, and the return
TFM_CombinedOutput(o, out) ==
    /\ fnResult.pc = "run"
    /\ o.exit = "notStarted" => out = ""
    /\ fnResult' =
         [fnResult EXCEPT
            !.pc = "returned",
            !.listFile = "removed",
            !.args = <<tryFastMergeArgs("ffmpeg-list.txt", fnArgs.output)>>,
            !.exit = o.exit,
            !.out = out,
            !.err = IF o.err # "" THEN fastMergeError(o.err, out) ELSE Nil]
    /\ UNCHANGED <<mainVars, fnArgs>>

\* exec.CommandContext for the final concat
MV_FinalCommand ==
    /\ fnResult.finalArgs = NotCalled
    /\ fnResult' =
         [fnResult EXCEPT
            !.finalArgs = <<finalConcatArgs("ffmpeg-list.txt", fnArgs.output)>>]
    /\ UNCHANGED <<mainVars, fnArgs>>

NextConcat ==
    \/ \E outcome \in {"ok", "createFail", "writeFail"} : TFM_WriteConcatList(outcome)
    \/ \E o \in ToolOutcomes, out \in Diagnostics : TFM_CombinedOutput(o, out)
    \/ MV_FinalCommand

SpecConcat == InitConcat /\ [][NextConcat]_vars

----------------------------------------------------------------------------
(* The progress reader of the final concat on its own *)

InitProgress ==
    /\ AppInit
    /\ encAvail = {}
    /\ fnArgs \in ProgressInputs
    /\ fnResult = [total |-> NotCalled, read |-> 0, events |-> <<>>, eof |-> FALSE,
                   fetched |-> 0, exit |-> "none", waited |-> FALSE,
                   err |-> NotCalled, returned |-> FALSE, atReturn |-> 0]

\* the loop that sums the durations; then cmd.Start and the launch of the
\* reader goroutine.  The lines the subprocess prints are few enough to sit
\* in the pipe, so it never waits for the reader
MV_TotalDuration ==
    /\ fnResult.total = NotCalled
    /\ fnResult' =
         [fnResult EXCEPT
            !.total = <<totalDurationOf(fnArgs.videoFiles, Len(fnArgs.videoFiles))>>,
            !.exit = "running"]
    /\ UNCHANGED <<mainVars, fnArgs>>

\* scanner.Scan has no complete line left and reads from the pipe: it gets
\* the lines up to number n
Reader_Fill(n) ==
    /\ fnResult.total # NotCalled
    /\ ~fnResult.eof
    /\ ~fnResult.waited
    /\ fnResult.read = fnResult.fetched
    /\ n \in (fnResult.fetched + 1)..Len(fnArgs.lines)
    /\ fnResult' = [fnResult EXCEPT !.fetched = n]
    /\ UNCHANGED <<mainVars, fnArgs>>

\* scanner.Scan returned a line and the loop body ran
Reader_Line ==
    /\ fnResult.total # NotCalled
    /\ fnResult.read < fnResult.fetched
    /\ fnResult' =
         [fnResult EXCEPT
            !.read = @ + 1,
            !.events = @ \o mergeEvents(fnArgs.lines[fnResult.read + 1],
                                        fnResult.read + 1, fnResult.total[1])]
    /\ UNCHANGED <<mainVars, fnArgs>>

\* scanner.Scan returned false: the subprocess exited and everything was
\* read, or cmd.Wait closed the pipe under the reader
Reader_EOF ==
    /\ fnResult.total # NotCalled
    /\ fnResult.read = fnResult.fetched
    /\ ~fnResult.eof
    /\ \/ fnResult.waited
       \/ fnResult.exit \in {"ok", "failed"} /\ fnResult.fetched = Len(fnArgs.lines)
    /\ fnResult' = [fnResult EXCEPT !.eof = TRUE]
    /\ UNCHANGED <<mainVars, fnArgs>>

\* the final concat subprocess exits
Proc_Exit(outcome) ==
    /\ fnResult.exit = "running"
    /\ fnResult' = [fnResult EXCEPT !.exit = outcome]
    /\ UNCHANGED <<mainVars, fnArgs>>

\* cmd.Wait sees the exit, closes the read side of the stdout pipe and
\* returns; the result is chosen from its error and ctx.Err()
MV_CmdWait(cancelled) ==
    /\ fnResult.exit \in {"ok", "failed"}
    /\ ~fnResult.waited
    /\ fnResult' =
         [fnResult EXCEPT
            !.waited = TRUE,
            !.err = IF fnResult.exit = "ok" THEN <<"ok_final">>
                    ELSE IF cancelled THEN <<"cancelled">> ELSE <<"err_exec">>]
    /\ UNCHANGED <<mainVars, fnArgs>>

\* MergeVideos returns the result to its caller
MV_ReturnFinal ==
    /\ fnResult.waited
    /\ ~fnResult.returned
    /\ fnResult' = [fnResult EXCEPT !.returned = TRUE,
                                    !.atReturn = Len(fnResult.events)]
    /\ UNCHANGED <<mainVars, fnArgs>>

NextProgress ==
    \/ MV_TotalDuration
    \/ \E n \in 1..MaxLines : Reader_Fill(n)
    \/ Reader_Line
    \/ Reader_EOF
    \/ \E outcome \in {"ok", "failed"} : Proc_Exit(outcome)
    \/ \E cancelled \in BOOLEAN : MV_CmdWait(cancelled)
    \/ MV_ReturnFinal

SpecProgress == InitProgress /\ [][NextProgress]_vars

----------------------------------------------------------------------------
(* The manifest line of one path on its own *)

InitEscape ==
    /\ AppInit
    /\ encAvail = {}
    /\ fnArgs \in EscapeInputs
    /\ fnResult = [escaped |-> NotCalled, token |-> NotCalled]

Call_escapeFFConcatPath ==
    /\ fnResult.escaped = NotCalled
    /\ fnResult' =
         [fnResult EXCEPT !.escaped = <<escapeFFConcatPath(fnArgs.p, fnArgs.sep)>>]
    /\ UNCHANGED <<mainVars, fnArgs>>

\* fmt.Fprintf(f, "file '%s'\n", escapeFFConcatPath(p))
WCL_Fprintf ==
    /\ fnResult.escaped # NotCalled
    /\ fnResult.token = NotCalled
    /\ fnResult' = [fnResult EXCEPT !.token = <<manifestToken(fnArgs.p, fnArgs.sep)>>]
    /\ UNCHANGED <<mainVars, fnArgs>>

NextEscape ==
    \/ Call_escapeFFConcatPath
    \/ WCL_Fprintf

SpecEscape == InitEscape /\ [][NextEscape]_vars

----------------------------------------------------------------------------
(* App.GetVideoMetadata on the streams of one file *)

InitProbe ==
    /\ AppInit
    /\ encAvail = {}
    /\ fnArgs \in ProbeInputs
    /\ fnResult = NotCalled

Call_GetVideoMetadata ==
    /\ fnResult = NotCalled
    /\ fnResult' = <<GetVideoMetadata("a.mp4", fnArgs)>>
    /\ UNCHANGED <<mainVars, fnArgs>>

NextProbe == Call_GetVideoMetadata

SpecProbe == InitProbe /\ [][NextProbe]_vars

----------------------------------------------------------------------------
(* Properties *)

Returned == mvPc = "idle" /\ mergeNo > 0

\* a normalization subprocess failed on its own
AnyTaskFailed == \E i \in 1..N : task[i] = "failed"

\* C1: if a normalization subprocess fails, MergeVideos returns the
\* normalization error and neither writes the final concat manifest nor
\* starts the final concat subprocess.
C1_FailureStopsBeforeFinalConcat ==
    AnyTaskFailed =>
        /\ finalList = "none"
        /\ finalProc = "none"
        /\ (Returned => result.kind = "err_normalize")

\* C2: while a normalization goroutine or its subprocess is still running,
\* MergeVideos has not reached a return and the temp directory has not been
\* removed.
C2_NoReturnWhileTasksRun ==
    (mvPc \in {"ret", "idle"} \/ tempDir = "removed") =>
        \A i \in 1..N : ~TaskLive(i)

\* the failure path: a sibling was killed by the orchestrator's cancel and
\* waited for before the error was returned and the directory removed
C2_Witness ==
    /\ Returned
    /\ result.kind = "err_normalize"
    /\ tempDir = "removed"
    /\ ctxState[NormCtx] = "orch"
    /\ \E i \in 1..N : task[i] = "killed"

\* C3: every line of the final concat manifest names the normalized output
\* of the input at the same position, and a completely written manifest has
\* one line per input.
C3_ManifestFollowsInputOrder ==
    /\ \A k \in 1..Len(finalManifest) :
          finalManifest[k] = outputFileName(k, videoFiles[k])
    /\ mvPc \in {"finalStart", "finalWait"} => Len(finalManifest) = N

\* C4: once MergeVideos has returned, the fast-path manifest, the
\* normalization temp directory and the final concat manifest it created
\* no longer exist.
C4_TempResourcesRemoved ==
    Returned =>
        /\ fastList # "exists"
        /\ tempDir # "exists"
        /\ finalList # "exists"

\* a merge that created all three (fast path failed, then the full
\* workflow) has returned
C4_Witness ==
    /\ Returned
    /\ fastList = "removed"
    /\ tempDir = "removed"
    /\ finalList = "removed"

\* C5: when CancelMerge takes effect while normalization subprocesses are
\* running, what MergeVideos reports is a cancelled outcome distinct from a
\* task failure: it is not the generic "failed to normalize" error.
C5_CancelDuringNormalizationIsCancelled ==
    (Returned /\ cancelPhase = "norm") => result.kind # "err_normalize"

\* C6: after a CancelMerge that takes effect while normalization tasks are
\* running, no final concat manifest is written and no final concat
\* subprocess is started.
C6_NoFinalConcatAfterCancel ==
    cancelPhase = "norm" => (finalList = "none" /\ finalProc = "none")

\* C7: when CancelMerge takes effect after normalization completed and
\* before the final concat subprocess exited, MergeVideos ends as cancelled:
\* it reports neither success nor an ordinary ffmpeg start or execution
\* failure.
C7_CancelDuringFinalConcatIsCancelled ==
    (Returned /\ cancelPhase = "final") =>
        result.kind \notin {"ok_final", "err_start", "err_exec"}

\* C8: a CancelMerge invoked while no merge is in flight returns at once,
\* cancels nothing, emits nothing and leaves cancelFunc, useHW and encAvail
\* unchanged.
C8_CancelWhenIdleIsNoOp ==
    [][(cmCalls' = cmCalls + 1 /\ mvPc = "idle") =>
          /\ cmPc' = "idle"
          /\ UNCHANGED <<cancelFunc, useHW, encAvail, ctxState, cancelledEvents>>]_vars

\* CancelMerge was invoked after a completed full merge and did nothing
C8_Witness ==
    /\ Returned
    /\ result.kind = "ok_final"
    /\ cmAtIdle
    /\ cmPc = "idle"
    /\ cmCalls = cmFound + 1
    /\ cancelFunc = 0

\* C9: mergeCancelled is emitted only by CancelMerge calls that found a
\* registered scope, and every such call, once over, has emitted exactly one.
C9_OneEventPerFoundScope ==
    /\ cancelledEvents <= cmFound
    /\ cmPc \in {"idle", "panicked"} => cancelledEvents = cmFound

\* the contexts of running subprocesses that nobody has cancelled yet
UncancelledLiveCtxs == {c \in LiveCtxs : ctxState[c] = "live"}

\* C10: whenever CancelMerge is invoked while subprocesses are running
\* uncancelled, a.cancelFunc holds the cancel function of the context every
\* one of them was started under.
C10_CancelReachesLiveSubprocesses ==
    [][(cmCalls' = cmCalls + 1 /\ UncancelledLiveCtxs # {}) =>
          (cancelFunc # 0 /\ UncancelledLiveCtxs = {cancelFunc})]_vars

\* MergeVideos is inside tryFastMerge
FastPcs == {"fastWrite", "fastRun", "fastWait"}

\* MergeVideos is in the final concat
FinalPcs == {"finalCreate", "finalWrite", "finalStart", "finalWait"}

\* C11: whenever tryFastMerge returns, either its subprocess succeeded and
\* MergeVideos returns the fast-merge success, or MergeVideos enters the
\* normalization workflow with the same input list and no result set: the
\* fast-path error is never what MergeVideos returns.
C11_FastFailureFallsBack ==
    [][(mvPc \in FastPcs /\ mvPc' \notin FastPcs) =>
          \/ /\ fastProc' = "ok"
             /\ result'.kind = "ok_fast"
          \/ /\ fastProc' # "ok"
             /\ mvPc' = "normStart"
             /\ result' = NoResult
             /\ videoFiles' = videoFiles]_vars

\* the fast-path subprocess failed and the merge then succeeded through
\* normalization and the final concat
C11_Witness ==
    /\ Returned
    /\ fastProc = "failed"
    /\ tempDir = "removed"
    /\ result.kind = "ok_final"

\* C12: a fast-path manifest or subprocess exists only when
\* looksFastMergeable is true for the records of the request; when it is
\* false MergeVideos is never inside tryFastMerge and never registers the
\* fast-path context.
C12_FastOnlyWhenClassifierApproves ==
    /\ (fastProc # "none" \/ fastList # "none" \/ mvPc \in FastPcs)
          => looksFastMergeable(videoFiles)
    /\ (mergeNo > 0 /\ ~looksFastMergeable(videoFiles))
          => (cancelFunc # FastCtx /\ ctxState[FastCtx] = "live")

\* the fast-path subprocess runs for an approved list
C12_Witness ==
    /\ fastProc = "running"
    /\ Len(videoFiles) >= 2
    /\ looksFastMergeable(videoFiles)

\* C13: success is reported only after the fast-path subprocess exited
\* successfully, or after the final concat subprocess exited successfully
\* with every normalization task of the request succeeded; the final concat
\* is never reached with a task that did not succeed, and tryFastMerge is
\* never entered after normalization started.
C13_SuccessOnlyAfterCompleteWork ==
    /\ result.kind = "ok_fast" => fastProc = "ok"
    /\ result.kind = "ok_final" =>
          (finalProc = "ok" /\ \A i \in 1..N : task[i] = "ok")
    /\ (mvPc \in FinalPcs \/ finalList # "none" \/ finalProc # "none") =>
          \A i \in 1..N : task[i] = "ok"
    /\ tempDir # "none" => mvPc \notin FastPcs

\* C30: a MergeVideos call with fewer than two records returns its error
\* at once: no save dialog, no context registered or cancelled, no manifest,
\* temp directory or subprocess, no goroutine, no deferred call, no event.
C30_TooFewRecordsDoesNothing ==
    [][(mergeNo' = mergeNo + 1 /\ Len(videoFiles') < 2) =>
          /\ mvPc' = "idle"
          /\ result'.kind = "err_too_few"
          /\ cancelFunc' = cancelFunc
          /\ ctxState' = ctxState
          /\ defers' = <<>>
          /\ fastList' = "none" /\ tempDir' = "none" /\ finalList' = "none"
          /\ fastProc' = "none" /\ finalProc' = "none"
          /\ \A i \in Indices : task'[i] = "idle"
          /\ cancelledEvents' = cancelledEvents]_vars

\* a call with a single record has returned the error
C30_Witness ==
    /\ Returned
    /\ Len(videoFiles) = 1
    /\ result.kind = "err_too_few"
    /\ tempDir = "none"

\* a MergeVideos invocation has not returned yet
InFlight == mvPc # "idle"

\* C24: from the invocation of MergeVideos to its return, no step changes
\* the encoder its normalization tasks use: before the choice is made a
\* change of the hardware preference does not alter what will be chosen,
\* and once made the choice stays.
C24_EncoderFixedAtMergeStart ==
    [][(InFlight /\ InFlight') =>
          IF enc = "none"
            THEN useHW' # useHW =>
                   buildVideoEncoderArgs(useHW', encAvail')
                     = buildVideoEncoderArgs(useHW, encAvail)
            ELSE enc' = enc]_vars

\* the events of kind message that goroutine i has emitted
EventsOfTask(i, message) ==
    {k \in DOMAIN taskEvents[i] : taskEvents[i][k].message = message}

\* the counter values the completion events carry
DoneValues ==
    UNION {{taskEvents[i][k].done : k \in EventsOfTask(i, "Normalized")} : i \in 1..N}

\* C32: when all N tasks succeeded, each has emitted one start event and one
\* completion event, the completion events carry the values 1..N, each once,
\* with total N; completion values are never repeated, and a task that
\* failed has emitted no completion event.
C32_CompletionCounterEvents ==
    /\ (N >= 2 /\ \A i \in 1..N : task[i] = "ok") =>
          /\ \A i \in 1..N :
                /\ Cardinality(EventsOfTask(i, "Normalizing")) = 1
                /\ Cardinality(EventsOfTask(i, "Normalized")) = 1
                /\ \A k \in EventsOfTask(i, "Normalized") : taskEvents[i][k].total = N
          /\ DoneValues = 1..N
    /\ \A i, j \in 1..N :
          \A k \in EventsOfTask(i, "Normalized"), l \in EventsOfTask(j, "Normalized") :
              taskEvents[i][k].done = taskEvents[j][l].done => (i = j /\ k = l)
    /\ \A i \in 1..N :
          task[i] \in {"failed", "killed", "notstarted"} =>
              EventsOfTask(i, "Normalized") = {}
    /\ \A i \in Indices : i > N => taskEvents[i] = <<>>

\* the second task completed first: it carries 1 and the first task 2
C32_Witness ==
    /\ Returned
    /\ result.kind = "ok_final"
    /\ taskEvents[1] = <<StartEvent, DoneEvent(2, 2)>>
    /\ taskEvents[2] = <<StartEvent, DoneEvent(1, 2)>>

\* the tasks whose cmd.Run returned an error
FailedTasks == {i \in 1..N : task[i] \in {"failed", "killed", "notstarted"}}

\* C33: when several tasks failed, MergeVideos returns the normalization
\* error of one of them, the first that offered its error; and unless the
\* user cancelled, a normalization error it returns is never that of a
\* task killed (or refused its start) by the orchestrator's cancellation.
C33_FirstErrorWins ==
    /\ (Returned /\ Cardinality(FailedTasks) >= 2) =>
          /\ result.kind = "err_normalize"
          /\ result.task = offers[1]
          /\ result.task \in FailedTasks
          /\ result.cause = task[result.task]
    /\ (Returned /\ result.kind = "err_normalize" /\ ctxState[NormCtx] # "user") =>
          result.cause = "failed"

\* MergeVideos is between the registration of the second context and the
\* exit of the final concat
NormPcs == {"launch", "select", "drain"} \cup FinalPcs

\* C34: after a CancelMerge that took effect during the fast-path attempt,
\* a killed fast-path subprocess makes MergeVideos go on to normalization,
\* and while normalization and the final concat run under their fresh,
\* uncancelled context, that context is the one registered in a.cancelFunc.
C34_FreshScopeStaysRegistered ==
    cancelPhase = "fast" =>
        /\ fastProc = "killed" => (mvPc \notin FastPcs /\ result.kind # "ok_fast")
        /\ (mvPc \in NormPcs /\ ctxState[NormCtx] = "live") => cancelFunc = NormCtx

\* C36: the function CancelMerge calls is the non-nil one its test read:
\* the call never panics on nil, and it cancels the context that was tested.
C36_CancelCallsWhatItTested ==
    [][(cmPc = "call" /\ cmPc' # "call") =>
          /\ cmPc' = "clear"
          /\ ctxState' = Cancel(ctxState, cmTested, "user")]_vars

\* C38: if every started subprocess eventually exits, a MergeVideos past
\* its save dialog eventually returns, whatever the tasks' outcomes and
\* whatever CancelMerge does.
C38_MergeEventuallyReturns ==
    (mvPc \notin {"idle", "dialog"}) ~> (mvPc = "idle")

\* a merge returned after one task failed and its sibling was killed by the
\* orchestrator's cancellation
C38_Witness ==
    /\ Returned
    /\ result.kind = "err_normalize"
    /\ \E i, j \in 1..N : task[i] = "failed" /\ task[j] = "killed"
    /\ doneCh

----------------------------------------------------------------------------
(* Properties of the classifiers, under SpecClassifier *)

\* looksFastMergeable has been applied to fnArgs
Classified == fnResult.fast # NotCalled

\* isFastMergeable has been applied to fnArgs
Rendered == fnResult.ready # NotCalled

\* records v and b agree on every field the classifier compares but FPS
SameButFPS(v, b) ==
    /\ v.Codec = b.Codec
    /\ v.Resolution = b.Resolution
    /\ v.HasAudio = b.HasAudio
    /\ v.PixelFormat = b.PixelFormat
    /\ v.SampleRate = b.SampleRate
    /\ v.ChannelLayout = b.ChannelLayout

\* C14: for the empty list and every single-record list looksFastMergeable
\* returns false.
C14_FewerThanTwoIsNotFastMergeable ==
    (Classified /\ Len(fnArgs) < 2) => fnResult.fast = <<FALSE>>

\* C15: for every list of at least two records that all equal the first on
\* codec, resolution, audio presence, frame rate, pixel format, sample rate
\* and channel layout, looksFastMergeable returns true.
C15_AllEqualIsFastMergeable ==
    (/\ Classified
     /\ Len(fnArgs) >= 2
     /\ \A k \in 1..Len(fnArgs) :
           SameButFPS(fnArgs[k], fnArgs[1]) /\ fnArgs[k].FPS = fnArgs[1].FPS)
        => fnResult.fast = <<TRUE>>

\* three identical records without audio, classified as fast-mergeable
C15_Witness ==
    /\ Classified
    /\ Len(fnArgs) = 3
    /\ ~fnArgs[1].HasAudio
    /\ fnArgs[2] = fnArgs[1]
    /\ fnArgs[3] = fnArgs[1]
    /\ fnResult.fast = <<TRUE>>

HardMismatch(v, b) ==
    \/ v.Codec # b.Codec
    \/ v.Resolution # b.Resolution
    \/ v.PixelFormat # b.PixelFormat
    \/ v.HasAudio # b.HasAudio

\* C17: if any record after the first differs from the first in codec,
\* resolution, pixel format or audio presence, looksFastMergeable returns
\* false, whatever the other fields and wherever the record stands; 640x360
\* against 1280x720 is not fast-mergeable.
C17_HardMismatchIsNotFastMergeable ==
    /\ (Classified /\ \E k \in 2..Len(fnArgs) : HardMismatch(fnArgs[k], fnArgs[1]))
          => fnResult.fast = <<FALSE>>
    /\ ~looksFastMergeable(<<VidA, VidB>>)

\* the third record alone differs, in resolution only, and the list is
\* rejected
C17_Witness ==
    /\ Classified
    /\ Len(fnArgs) = 3
    /\ fnArgs[2] = fnArgs[1]
    /\ fnArgs[3] = [fnArgs[1] EXCEPT !.Resolution = <<1280, 720>>]
    /\ fnArgs[1].Resolution = <<640, 360>>
    /\ fnResult.fast = <<FALSE>>

\* C18: with audio on both the first and a later record, a difference in
\* sample rate or channel layout makes looksFastMergeable false; with audio
\* on no record, records that agree on codec, resolution, pixel format and
\* frame rate are fast-mergeable whatever their sample rates and channel
\* layouts.
C18_AudioParamsOnlyWithAudio ==
    /\ (/\ Classified
        /\ \E k \in 2..Len(fnArgs) :
              /\ fnArgs[k].HasAudio
              /\ fnArgs[1].HasAudio
              /\ \/ fnArgs[k].SampleRate # fnArgs[1].SampleRate
                 \/ fnArgs[k].ChannelLayout # fnArgs[1].ChannelLayout)
          => fnResult.fast = <<FALSE>>
    /\ (/\ Classified
        /\ Len(fnArgs) >= 2
        /\ \A k \in 1..Len(fnArgs) :
              /\ ~fnArgs[k].HasAudio
              /\ ~HardMismatch(fnArgs[k], fnArgs[1])
              /\ fnArgs[k].FPS = fnArgs[1].FPS)
          => fnResult.fast = <<TRUE>>

\* two records without audio whose sample rate and channel layout both
\* differ, classified as fast-mergeable
C18_Witness ==
    /\ Classified
    /\ Len(fnArgs) = 2
    /\ ~fnArgs[1].HasAudio
    /\ ~fnArgs[2].HasAudio
    /\ fnArgs[2].SampleRate # fnArgs[1].SampleRate
    /\ fnArgs[2].ChannelLayout # fnArgs[1].ChannelLayout
    /\ fnResult.fast = <<TRUE>>

\* C19: for every list of at least two loaded records, the lists a merge is
\* started with, the frontend's isFastMergeable and the backend's
\* looksFastMergeable return the same boolean, and for every list the
\* indicator is 'ready' exactly when MergeVideos attempts the fast path.
C19_IndicatorMatchesDecision ==
    (Classified /\ Rendered) =>
        /\ Len(fnArgs) >= 2 => fnResult.ready = fnResult.fast
        /\ fnResult.ready = <<attemptsFastPath(fnArgs)>>

\* both say yes for a pair at the frame-rate boundary, both say no for a
\* pair beyond it
C19_Witness ==
    /\ Classified
    /\ Rendered
    /\ Len(fnArgs) = 2
    /\ SameButFPS(fnArgs[2], fnArgs[1])
    /\ Abs(fnArgs[2].FPS - fnArgs[1].FPS) = 5
    /\ fnResult.ready = <<TRUE>>
    /\ fnResult.fast = <<TRUE>>

\* the list vs in the order p
Reordered(vs, p) == [k \in DOMAIN vs |-> vs[p[k]]]

\* C40: the decision of looksFastMergeable for a list is the decision for
\* every reordering of the list.
C40_DecisionIgnoresOrder ==
    Classified =>
        \A p \in Permutations(DOMAIN fnArgs) :
            looksFastMergeable(Reordered(fnArgs, p)) = fnResult.fast[1]

----------------------------------------------------------------------------
(* Properties of the target resolution, under SpecTarget *)

\* record k is the first of the widest records of vs
FirstWidest(vs, k) ==
    /\ \A j \in 1..Len(vs) : vs[j].Resolution[1] <= vs[k].Resolution[1]
    /\ \A j \in 1..(k - 1) : vs[j].Resolution[1] < vs[k].Resolution[1]

\* C20: the target resolution is the width and height of the first record,
\* in input order, whose width is the greatest width of the list; every
\* task scales and pads to it; for 640x360 and 1280x720 it is 1280x720.
C20_TargetIsFirstWidestRecord ==
    /\ fnResult.target # NotCalled =>
          \E k \in 1..Len(fnArgs) :
             /\ FirstWidest(fnArgs, k)
             /\ fnResult.target = <<fnArgs[k].Resolution>>
    /\ \A i \in DOMAIN fnArgs :
          fnResult.vf[i] # NotCalled =>
             /\ fnResult.vf[i][1].scale = fnResult.target[1]
             /\ fnResult.vf[i][1].pad = fnResult.target[1]
    /\ highest(<<VidA, VidB>>, 2) = <<1280, 720>>

\* the tallest record comes first and two records share the greatest
\* width: the target is the earlier of the two, and all three tasks use it
C20_Witness ==
    /\ Len(fnArgs) = 3
    /\ fnArgs[1].Resolution = <<960, 1080>>
    /\ fnArgs[2].Resolution = <<1280, 720>>
    /\ fnArgs[3].Resolution = <<1280, 544>>
    /\ fnResult.target = <<<<1280, 720>>>>
    /\ \A i \in 1..3 : fnResult.vf[i] = <<videoFilter(<<1280, 720>>)>>

----------------------------------------------------------------------------
(* Properties of the audio normalization decision, under SpecAudio *)

AllHaveAudio(vs) == \A k \in DOMAIN vs : vs[k].HasAudio
NoneHasAudio(vs) == \A k \in DOMAIN vs : ~vs[k].HasAudio

\* C21: audio normalization is required exactly for the lists with at
\* least one record with audio and at least one without; it is not required
\* when all records have audio or when none has.
C21_AudioNormalizeIffMixed ==
    fnResult.need # NotCalled =>
        fnResult.need = <<~AllHaveAudio(fnArgs) /\ ~NoneHasAudio(fnArgs)>>

\* three records of which only the last lacks audio: required
C21_Witness ==
    /\ Len(fnArgs) = 3
    /\ fnArgs[1].HasAudio
    /\ fnArgs[2].HasAudio
    /\ ~fnArgs[3].HasAudio
    /\ fnResult.need = <<TRUE>>

\* the arguments of task i have been built
ArgsBuilt(i) == i \in DOMAIN fnArgs /\ fnResult.args[i] # NotCalled

\* sub occurs in args as consecutive arguments
HasRun(args, sub) ==
    \E k \in 1..(Len(args) - Len(sub) + 1) : SubSeq(args, k, k + Len(sub) - 1) = sub

SyntheticInput ==
    <<"-f", "lavfi", "-t", "999999", "-i",
      "anullsrc=channel_layout=stereo:sample_rate=48000">>

ToAAC == <<"-c:a", "aac", "-ar", "48000", "-ac", "2">>

\* number of -i arguments
InputCount(args) == Cardinality({k \in DOMAIN args : args[k] = "-i"})

\* C31: a task's audio arguments follow (normalization required, source has
\* audio): required and silent -> synthetic silent stereo 48 kHz input,
\* mapped, with -shortest; source with audio -> its first audio stream to
\* AAC 48 kHz stereo and no synthetic input; not required and silent -> -an;
\* the synthetic input appears in no other case.
C31_TaskAudioArguments ==
    \A i \in DOMAIN fnArgs : ArgsBuilt(i) =>
        LET args == fnResult.args[i][1]
            required == ~AllHaveAudio(fnArgs) /\ ~NoneHasAudio(fnArgs)
            hasAudio == fnArgs[i].HasAudio
        IN  /\ (required /\ ~hasAudio) =>
                  /\ HasRun(args, SyntheticInput)
                  /\ InputCount(args) = 2
                  /\ HasRun(args, <<"-map", "1:a:0">> \o ToAAC \o <<"-shortest">>)
            /\ hasAudio =>
                  /\ ~HasRun(args, SyntheticInput)
                  /\ InputCount(args) = 1
                  /\ HasRun(args, <<"-map", "0:a:0">> \o ToAAC)
                  /\ ~HasRun(args, <<"-an">>)
            /\ (~required /\ ~hasAudio) =>
                  /\ HasRun(args, <<"-an">>)
                  /\ ~HasRun(args, <<"-c:a">>)
                  /\ InputCount(args) = 1
            /\ HasRun(args, SyntheticInput) => (required /\ ~hasAudio)

\* a mixed list: the silent record got the synthetic input, the one with
\* audio did not
C31_Witness ==
    /\ Len(fnArgs) = 2
    /\ fnArgs[1].HasAudio
    /\ ~fnArgs[2].HasAudio
    /\ ArgsBuilt(1)
    /\ ArgsBuilt(2)
    /\ HasRun(fnResult.args[2][1], SyntheticInput)
    /\ ~HasRun(fnResult.args[1][1], SyntheticInput)

----------------------------------------------------------------------------
(* Properties of buildVideoEncoderArgs, under SpecEncoder *)

\* the hardware encoders in their priority order
Priority == <<"h264_nvenc", "h264_qsv", "h264_amf">>

\* the hardware encoders the map marks available
Available == {Priority[r] : r \in 1..3} \cap trueKeys(fnArgs.have)

\* C22: with the hardware preference off, for any availability map, and
\* with the preference on but none of h264_nvenc, h264_qsv, h264_amf
\* available (a nil or empty map, a map with only a hevc encoder),
\* buildVideoEncoderArgs returns libx264 with -preset veryfast -crf 20
\* -pix_fmt yuv420p.
C22_CpuChoiceWithoutHardware ==
    (fnResult # NotCalled /\ (~fnArgs.useHW \/ Available = {})) =>
        /\ fnResult[1].Name = "libx264"
        /\ fnResult[1].Codec =
             <<"-c:v", "libx264", "-preset", "veryfast", "-crf", "20",
               "-pix_fmt", "yuv420p">>

\* the preference is off although every hardware encoder is available
C22_Witness ==
    /\ fnResult # NotCalled
    /\ ~fnArgs.useHW
    /\ Cardinality(Available) = 3
    /\ fnResult[1].Name = "libx264"

\* C23: with the hardware preference on and some hardware encoder
\* available, buildVideoEncoderArgs returns the available encoder that
\* comes first in the order h264_nvenc, h264_qsv, h264_amf, with the
\* arguments of that encoder; the returned name is always an encoder marked
\* available, or libx264.
C23_FirstAvailableByPriority ==
    fnResult # NotCalled =>
        /\ fnResult[1].Name \in Available \cup {"libx264"}
        /\ fnResult[1].Codec[2] = fnResult[1].Name
        /\ (fnArgs.useHW /\ Available # {}) =>
              \E r \in 1..3 :
                 /\ fnResult[1].Name = Priority[r]
                 /\ Priority[r] \in Available
                 /\ \A q \in 1..(r - 1) : Priority[q] \notin Available

\* nvenc is keyed but false, qsv and amf are both available: qsv is chosen
C23_Witness ==
    /\ fnResult # NotCalled
    /\ fnArgs.useHW
    /\ ~fnArgs.have.nil
    /\ "h264_nvenc" \in DOMAIN fnArgs.have.kv
    /\ Available = {"h264_qsv", "h264_amf"}
    /\ fnResult[1].Name = "h264_qsv"

----------------------------------------------------------------------------
(* Properties of the concat invocations, under SpecConcat *)

\* the strings of a command line
Words(args) == {args[i] : i \in DOMAIN args}

\* the command line has -c copy
StreamCopy(args) ==
    \E i \in 1..(Len(args) - 1) : args[i] = "-c" /\ args[i + 1] = "copy"

\* the command line has no filter or scaling option
NoFilter(args) == Words(args) \cap {"-vf", "-filter:v", "-filter_complex", "-s"} = {}

\* C25: both concat command lines have -c copy and no filter or scaling
\* option, for any input list; -xerror is in the fast one, and -progress
\* is in the final one only.
C25_ConcatIsStreamCopy ==
    /\ fnResult.args # NotCalled =>
          /\ StreamCopy(fnResult.args[1])
          /\ NoFilter(fnResult.args[1])
          /\ "-xerror" \in Words(fnResult.args[1])
          /\ "-progress" \notin Words(fnResult.args[1])
    /\ fnResult.finalArgs # NotCalled =>
          /\ StreamCopy(fnResult.finalArgs[1])
          /\ NoFilter(fnResult.finalArgs[1])
          /\ "-progress" \in Words(fnResult.finalArgs[1])

\* both commands have been built for the inputs a.mp4, b.mp4
C25_Witness ==
    /\ fnArgs.inputPaths = <<"a.mp4", "b.mp4">>
    /\ fnResult.args # NotCalled
    /\ fnResult.finalArgs # NotCalled

\* the text of an error has the piece d
Contains(text, d) == d = "" \/ \E i \in DOMAIN text : text[i] = d

\* C26: a direct tryFastMerge call whose tool run fails returns a non-nil
\* error whose text contains what the tool printed, and has then returned
\* without doing anything else; it returns nil exactly when the tool exited
\* successfully.
C26_FastMergeErrorHasDiagnostic ==
    fnResult.pc = "returned" =>
        /\ fnResult.exit \in {"failed", "killed"} =>
              /\ fnResult.err # Nil
              /\ Contains(fnResult.err, fnResult.out)
        /\ (fnResult.err = Nil) <=> (fnResult.exit = "ok")

\* the tool printed 'codec mismatch' and exited with status 1
C26_Witness ==
    /\ fnArgs.inputPaths = <<"a.mp4", "b.mp4">>
    /\ fnResult.pc = "returned"
    /\ fnResult.exit = "failed"
    /\ fnResult.out = "codec mismatch"
    /\ Contains(fnResult.err, "codec mismatch")

----------------------------------------------------------------------------
(* Properties of the progress reader, under SpecProgress *)

\* the sum of the durations of the records, in seconds
SumOfDurations ==
    LET RECURSIVE Sum(_)
        Sum(k) == IF k = 0 THEN 0 ELSE Sum(k - 1) + fnArgs.videoFiles[k].Duration
    IN  Sum(Len(fnArgs.videoFiles))

\* the events emitted for line number k
EventsOf(k) == SelectSeq(fnResult.events, LAMBDA e : e.line = k)

\* the fraction x is the number num / den
IsQuotient(x, num, den) == x.n * den = num * x.d

\* C27: with T > 0 the sum of all input durations, a line out_time_ms=V
\* yields one event with percentage min(100, (V/1000000)/T*100), current
\* V/1000000 and total T (V = 5000000 and T = 10 give 50), and a line
\* progress=end yields one event with percentage 100, whatever was emitted
\* before and whatever T is.
C27_ProgressPercentage ==
    \A k \in 1..fnResult.read :
        LET line == fnArgs.lines[k]
            T == SumOfDurations
            V == ParseInt(line.value)[1]
        IN  /\ (line.key = "out_time_ms" /\ ParseInt(line.value) # <<>> /\ T > 0) =>
                  /\ Len(EventsOf(k)) = 1
                  /\ IF V > 1000000 * T
                       THEN EventsOf(k)[1].percentage = Frac(100)
                       ELSE IsQuotient(EventsOf(k)[1].percentage, V \div 10000, T)
                  /\ IsQuotient(EventsOf(k)[1].current, V \div 10000, 100)
                  /\ EventsOf(k)[1].total = Frac(T)
            /\ (line.key = "progress" /\ line.value = "end") =>
                  /\ Len(EventsOf(k)) = 1
                  /\ EventsOf(k)[1].percentage = Frac(100)

\* out_time_ms=5000000 with two records of 5 seconds gives 50, and the
\* progress=end after it gives 100
C27_Witness ==
    /\ SumOfDurations = 10
    /\ fnArgs.lines = <<[eq |-> TRUE, key |-> "out_time_ms", value |-> "5000000"],
                        [eq |-> TRUE, key |-> "progress", value |-> "end"]>>
    /\ fnResult.read = 2
    /\ Len(fnResult.events) = 2
    /\ fnResult.events[1].percentage = Frac(50)
    /\ fnResult.events[2].percentage = Frac(100)

\* a line the reader has nothing to report for: no '=', an out_time_ms
\* value that is not an integer, or a key other than out_time_ms and progress
Ignored(line) ==
    \/ ~line.eq
    \/ line.key = "out_time_ms" /\ ParseInt(line.value) = <<>>
    \/ line.key \notin {"out_time_ms", "progress"}

C37_NoProgressEventAfterReturn ==
    fnResult.returned => Len(fnResult.events) = fnResult.atReturn

\* C39: every event with a percentage has 0 <= percentage <= 100, whatever
\* integer the out_time_ms line carries, and with a total duration of 0 an
\* out_time_ms line emits no event.
C39_PercentageWithinBounds ==
    /\ \A k \in DOMAIN fnResult.events :
          LET percentage == fnResult.events[k].percentage IN
          /\ 0 <= percentage.n
          /\ percentage.n <= 100 * percentage.d
    /\ \A k \in 1..fnResult.read :
          (SumOfDurations = 0 /\ fnArgs.lines[k].key = "out_time_ms")
              => EventsOf(k) = <<>>

----------------------------------------------------------------------------
(* Properties of the manifest escaping, under SpecEscape *)

\* the concat demuxer's reading of a token from position i on: text inside
\* single quotes is literal, a backslash outside quotes escapes the next
\* character
RECURSIVE Unquote(_, _, _)
Unquote(tok, i, quoted) ==
    IF i > Len(tok) THEN <<>>
    ELSE IF quoted
      THEN IF tok[i] = "'" THEN Unquote(tok, i + 1, FALSE)
           ELSE <<tok[i]>> \o Unquote(tok, i + 1, TRUE)
    ELSE IF tok[i] = "\\" /\ i < Len(tok)
      THEN <<tok[i + 1]>> \o Unquote(tok, i + 2, FALSE)
    ELSE IF tok[i] = "'" THEN Unquote(tok, i + 1, TRUE)
    ELSE <<tok[i]>> \o Unquote(tok, i + 1, FALSE)

\* C28: on both kinds of platform, reading the manifest line written for a
\* path p by the demuxer's quoting rules yields exactly p, and a single
\* quote is written as '\''.
C28_EscapeRoundTrips ==
    /\ fnResult.token # NotCalled => Unquote(fnResult.token[1], 1, FALSE) = fnArgs.p
    /\ (fnResult.escaped # NotCalled /\ fnArgs.p = <<"'">>) =>
          fnResult.escaped = <<<<"'", "\\", "'", "'">>>>

----------------------------------------------------------------------------
(* Properties of GetVideoMetadata, under SpecProbe *)

\* the first stream of the given type
FirstOfType(streams, type) ==
    streams[CHOOSE k \in DOMAIN streams :
               /\ streams[k].CodecType = type
               /\ \A j \in 1..(k - 1) : streams[j].CodecType # type]

HasType(streams, type) == \E k \in DOMAIN streams : streams[k].CodecType = type

\* C29: the record GetVideoMetadata returns has the codec, resolution,
\* frame rate and pixel format of the first video stream and, when there is
\* an audio stream, the sample rate and channel layout of the first one,
\* also with several video or audio streams in the list.
C29_FirstStreamsAreRepresentative ==
    (fnResult # NotCalled /\ fnResult[1].err = "") =>
        LET file == fnResult[1].file IN
        /\ HasType(fnArgs, "video")
        /\ LET v == FirstOfType(fnArgs, "video") IN
             /\ file.Codec = v.CodecName
             /\ file.Resolution = <<v.Width, v.Height>>
             /\ file.FPS = parseFrameRate(v.AvgFrameRate)
             /\ file.PixelFormat = v.PixFmt
        /\ file.HasAudio = HasType(fnArgs, "audio")
        /\ HasType(fnArgs, "audio") =>
             LET a == FirstOfType(fnArgs, "audio") IN
             /\ file.SampleRate = Atoi(a.SampleRate)
             /\ file.ChannelLayout = a.ChannelLayout

====
